---- MODULE Spec2Model ----
(***************************************************************************)
(* Model of the task pipeline of anshuman5a/project:                       *)
(*   - LLMClient        (src/p1/project_1/src/llm/client.py)               *)
(*   - TaskParser       (src/p1/project_1/src/tasks/parser.py)             *)
(*   - InstallScriptExecutor                                               *)
(*                      (src/project_1/src/tasks/executors/install_script.py) *)
(*   - run_task         (src/project_1/src/api/routes/task_routes.py)      *)
(*   - SecurityCheck    (src/p1/project_1/src/utils/security.py)           *)
(*   - read_file        (src/project_1/src/api/routes/file_routes.py)      *)
(* One behaviour is one top-level call (generate, generate_vision,         *)
(* parse_task, execute or the route run_task) followed to its return or    *)
(* raise.  TaskExecutor.execute_task is not among the sources; it is       *)
(* modelled from section 4.3 of the specification.                         *)
(*                                                                         *)
(* Text is a sequence of string pieces; an exception is a record           *)
(* [type, msg] whose msg is the text str(e) yields.  Library names are     *)
(* taken as the code uses them (httpx.TimeoutError is the exception a      *)
(* request timeout raises).                                                *)
(***************************************************************************)
EXTENDS Integers, Sequences, FiniteSets, TLC

VARIABLES
    caller,        \* which top-level call this behaviour makes ("none" before it)
    g_pc,          \* LLMClient._make_request position
    attempt,       \* loop variable of `for attempt in range(self.max_retries)`
    requests,      \* number of client.post calls made
    req_timeouts,  \* the timeout= argument of each client.post, in order
    sleeps,        \* the argument of each asyncio.sleep in _make_request, in order
    responses,     \* the outcome of each client.post, in order
    g_prompt,      \* the prompt argument of generate
    g_messages,    \* the messages argument of generate_vision
    g_temperature, \* the temperature argument of the call (tenths)
    g_result,      \* value returned by generate / generate_vision
    g_error,       \* exception raised by generate / generate_vision
    p_pc,          \* TaskParser.parse_task position
    task_description, \* the argument of parse_task
    llm_calls,     \* number of calls of self.llm_client.generate made by the parser
    p_result,      \* the dict parse_task returned
    p_error,       \* the exception parse_task raised
    e_pc,          \* InstallScriptExecutor.execute position
    params,        \* the caller's params argument (mutated by execute)
    e_attempt,     \* loop variable of the retry loop being run
    events,        \* the side effects of execute, in order
    e_done,        \* the stages that have completed successfully
    e_sleeps,      \* the argument of each asyncio.sleep of the executor, in order
    script_file,   \* content of data/datagen.py
    proc,          \* the script subprocess
    elapsed,       \* seconds waited in asyncio.wait_for
    io,            \* the external operations of execute, with arguments and outcome
    log,           \* the records handed to the logger by the executor
    e_result,      \* value returned by execute
    e_error,       \* exception raised by execute
    h_pc,          \* run_task position
    task_info,     \* the value parse_task returned to run_task
    dispatched,    \* the argument of each execute_task call, in order
    invoked,       \* the executors invoked by execute_task: [task_type, params]
    success,       \* the value execute_task returned
    x_error,       \* the exception execute_task raised
    h_response,    \* the HTTP answer of run_task: [status, detail]
    s_pc,          \* position of the is_path_allowed / sanitize_path / read_file call
    s_path,        \* the path argument of that call
    s_result,      \* the value the call returned
    s_error,       \* the exception the call raised
    f_trace,       \* the policy checks and file reads of read_file, in order
    f_response,    \* the HTTP answer of read_file: [status, detail]
    reqs,          \* two concurrent install executions: position, url, content, process
    disk,          \* the content of data/datagen.py those executions share
    write_log,     \* their writes of that file, in order: [req, content]
    n_pc,          \* two parse_task calls in a row: which of them has been made
    n_first,       \* the argument and the outcome of the first of the two calls
    n_variant      \* how the argument of the second call was made from the first

gwVars == <<g_pc, attempt, requests, req_timeouts, sleeps, responses,
            g_prompt, g_messages, g_temperature, g_result, g_error>>

parserVars == <<p_pc, task_description, llm_calls, p_result, p_error>>

execVars == <<e_pc, params, e_attempt, events, e_done, e_sleeps, script_file,
              proc, elapsed, io, log, e_result, e_error>>

routeVars == <<h_pc, task_info, dispatched, invoked, success, x_error, h_response>>

secVars == <<s_pc, s_path, s_result, s_error, f_trace, f_response>>

raceVars == <<reqs, disk, write_log>>

normVars == <<n_pc, n_first, n_variant>>

extVars == <<routeVars, secVars, raceVars, normVars>>

vars == <<caller, gwVars, parserVars, execVars, extVars>>

----------------------------------------------------------------------------
(* Values shared by the components *)

NoError == [type |-> "none", msg |-> <<>>]

Exc(t, m) == [type |-> t, msg |-> m]

NoValue == [kind |-> "novalue", val |-> ""]

PyNone == [kind |-> "None", val |-> ""]

\* the two ways a call ends: [exc, value]
Returned(v) == [exc |-> NoError, value |-> v]

Raised(e) == [exc |-> e, value |-> NoValue]

PyStr(s) == [kind |-> "str", val |-> s]

PyOther(k) == [kind |-> k, val |-> ""]

\* only None is falsy
Truthy_mut(x) == x.kind # "None"

\* bool(x) for the values above: None, False and the empty string are falsy
Truthy(x) == CASE x.kind = "None" -> FALSE
               [] x.kind = "str"  -> x.val # ""
               [] x.kind = "bool" -> x.val = "True"
               [] OTHER           -> TRUE

Min(a, b) == IF a <= b THEN a ELSE b

RECURSIVE Pow2(_)
Pow2(n) == IF n = 0 THEN 1 ELSE 2 * Pow2(n - 1)

Digit(d) == CASE d = 0 -> "0" [] d = 1 -> "1" [] d = 2 -> "2" [] d = 3 -> "3"
              [] d = 4 -> "4" [] d = 5 -> "5" [] d = 6 -> "6" [] d = 7 -> "7"
              [] d = 8 -> "8" [] d = 9 -> "9"

\* str(n) of a Python int, as the sequence of its characters
RECURSIVE Str(_)
Str(n) == IF n < 0 THEN <<"-">> \o Str(0 - n)
          ELSE IF n < 10 THEN <<Digit(n)>>
          ELSE Str(n \div 10) \o <<Digit(n % 10)>>

----------------------------------------------------------------------------
(* LLMClient *)

\* one attempt too many
max_retries_mut == 3 + 1

max_retries == 3

base_timeout == 30

max_timeout == 90

\* the cap inside min(2 ** attempt, 8)
backoff_cap == 8

\* prompt arguments: empty, non-empty, and two non-string values
Prompts == {PyStr(""), PyStr("hello"), PyNone, PyOther("int")}

\* temperature arguments, in tenths (0.7 is 7)
Temperatures == {0 - 1, 0, 7, 10, 11}

\* messages arguments of generate_vision: each message is a dict with a role
VisionInputs == {<<>>, <<[role |-> "user"]>>, <<[role |-> "user"], [role |-> "robot"]>>}

\* Field(..., regex='^(user|assistant|system)$')
RoleOK(role) == role \in {"user", "assistant", "system"}

Contents == {PyStr("alpha"), PyStr("beta"), PyNone}

\* response.json() data shapes
OKData(c) == [choices |-> <<[message |-> [content |-> c]]>>]

DataShapes ==
    {OKData(c) : c \in Contents}
    \cup {[error |-> <<>>],
          [choices |-> <<>>],
          [choices |-> <<[index |-> <<>>]>>],
          [choices |-> <<[message |-> [role |-> <<>>]]>>]}

Bodies == {[is_json |-> TRUE, data |-> d] : d \in DataShapes}
          \cup {[is_json |-> FALSE, data |-> [error |-> <<>>]]}

NoBody == [is_json |-> FALSE, data |-> [error |-> <<>>]]

HttpResponse(code, body) == [kind |-> "http", status_code |-> code, body |-> body]

TimeoutOutcome == [kind |-> "timeout", status_code |-> 0, body |-> NoBody]

ConnectErrorOutcome == [kind |-> "connect_error", status_code |-> 0, body |-> NoBody]

HttpResponses == {HttpResponse(200, b) : b \in Bodies}
                 \cup {HttpResponse(c, NoBody) : c \in {429, 500, 404}}

\* only server errors raise
RaiseForStatus_mut(r) ==
    IF r.status_code >= 500
    THEN Exc("HTTPStatusError", <<"HTTP status ">> \o Str(r.status_code))
    ELSE NoError

\* response.raise_for_status(): an HTTPStatusError for 4xx/5xx
RaiseForStatus(r) ==
    IF r.status_code >= 400
    THEN Exc("HTTPStatusError", <<"HTTP status ">> \o Str(r.status_code))
    ELSE NoError

\* lines 126-131: json(), LLMResponse(**data), choices[0]["message"]["content"];
\* KeyError and IndexError become RuntimeError("Invalid API response format: ...").
\* Yields [exc, value].
ValidateResponse(r) ==
    LET d == r.body.data
        Inner(e)  == Raised(Exc("RuntimeError", <<"Invalid API response format: ">> \o e.msg))
    IN  IF ~r.body.is_json
        THEN Raised(Exc("JSONDecodeError", <<"Expecting value">>))
        ELSE IF "choices" \notin DOMAIN d
        THEN Raised(Exc("ValidationError", <<"choices field required">>))
        ELSE IF Len(d.choices) < 1
        THEN Inner(Exc("IndexError", <<"list index out of range">>))
        ELSE IF "message" \notin DOMAIN d.choices[1]
        THEN Inner(Exc("KeyError", <<"'message'">>))
        ELSE IF "content" \notin DOMAIN d.choices[1].message
        THEN Inner(Exc("KeyError", <<"'content'">>))
        ELSE Returned(d.choices[1].message.content)

\* the timeout grows from attempt, not attempt + 1
RequestTimeout_mut(a) == Min(base_timeout * a, max_timeout)

\* min(self.base_timeout * (attempt + 1), self.max_timeout)
RequestTimeout(a) == Min(base_timeout * (a + 1), max_timeout)

\* the backoff doubles once too often
WaitTime_mut(a) == Min(Pow2(a + 1), backoff_cap)

\* min(2 ** attempt, 8)
WaitTime(a) == Min(Pow2(a), backoff_cap)

\* the 429 branch sleeps and retries on the last attempt too
RetryOn429_mut(a) == a < max_retries

\* the 429 branch sleeps and retries only when attempts remain
RetryOn429(a) == a < max_retries - 1

\* the timeout handler never raises
TimeoutIsFatal_mut(a) == FALSE

\* the timeout handler raises only on the last attempt
TimeoutIsFatal(a) == a = max_retries - 1

gwIdle ==
    /\ g_pc = "idle" /\ attempt = 0 /\ requests = 0
    /\ req_timeouts = <<>> /\ sleeps = <<>> /\ responses = <<>>
    /\ g_prompt = NoValue /\ g_messages = <<>> /\ g_temperature = 0
    /\ g_result = NoValue /\ g_error = NoError

\* an exception leaves _make_request (or generate): nothing more is sent
GwRaise(e) ==
    /\ g_pc' = "raised"
    /\ g_error' = e
    /\ UNCHANGED <<attempt, requests, req_timeouts, sleeps, g_temperature, g_result>>

\* the for loop goes to its next iteration, or ends and the function
\* falls off its end (returning None)
GwNextIteration ==
    IF attempt + 1 < max_retries
    THEN /\ attempt' = attempt + 1
         /\ g_pc' = "send"
         /\ UNCHANGED <<g_result, g_error>>
    ELSE /\ g_pc' = "returned"
         /\ g_result' = PyNone
         /\ UNCHANGED <<attempt, g_error>>

\* the timeout handler sleeps before the next attempt
GwHandle_mut(e) ==
    CASE e.type = "TimeoutError" ->
            IF TimeoutIsFatal(attempt)
            THEN GwRaise(Exc("RuntimeError",
                     <<"Request timed out after ">> \o Str(max_retries) \o <<" attempts">>))
            ELSE /\ GwNextIteration
                 /\ sleeps' = Append(sleeps, 1)
                 /\ UNCHANGED <<requests, req_timeouts, g_temperature>>
      [] e.type = "HTTPStatusError" ->
            GwRaise(Exc("RuntimeError", <<"API request failed: ">> \o e.msg))
      [] OTHER ->
            GwRaise(Exc("RuntimeError", <<"LLM request failed: ">> \o e.msg))

\* the except clauses of the outer try (lines 133-144)
GwHandle(e) ==
    CASE e.type = "TimeoutError" ->
            IF TimeoutIsFatal(attempt)
            THEN GwRaise(Exc("RuntimeError",
                     <<"Request timed out after ">> \o Str(max_retries) \o <<" attempts">>))
            ELSE /\ GwNextIteration
                 /\ UNCHANGED <<requests, req_timeouts, sleeps, g_temperature>>
      [] e.type = "HTTPStatusError" ->
            GwRaise(Exc("RuntimeError", <<"API request failed: ">> \o e.msg))
      [] OTHER ->
            GwRaise(Exc("RuntimeError", <<"LLM request failed: ">> \o e.msg))

\* the upper bound of the temperature is not checked
TemperatureOK_mut(t) == 0 <= t

\* `0 <= temperature <= 1`, in tenths
TemperatureOK(t) == 0 <= t /\ t <= 10

\* generate(prompt, temperature), lines 55-62
Generate(prompt, temperature) ==
    /\ caller = "none"
    /\ UNCHANGED <<parserVars, execVars, extVars>>
    /\ caller' = "generate"
    /\ g_prompt' = prompt
    /\ g_temperature' = temperature
    /\ UNCHANGED g_messages
    /\ IF ~Truthy(prompt) \/ prompt.kind # "str"
       THEN /\ g_pc' = "raised"
            /\ g_error' = Exc("ValueError", <<"Prompt must be a non-empty string">>)
       ELSE IF ~TemperatureOK(temperature)
       THEN /\ g_pc' = "raised"
            /\ g_error' = Exc("ValueError", <<"Temperature must be between 0 and 1">>)
       ELSE /\ g_pc' = "send"
            /\ g_error' = NoError
    /\ UNCHANGED <<attempt, requests, req_timeouts, sleeps, responses, g_result>>

\* generate_vision(messages, temperature), lines 79-89
GenerateVision(messages, temperature) ==
    /\ caller = "none"
    /\ UNCHANGED <<parserVars, execVars, extVars>>
    /\ caller' = "generate_vision"
    /\ g_messages' = messages
    /\ g_temperature' = temperature
    /\ UNCHANGED g_prompt
    /\ IF messages = <<>>
       THEN /\ g_pc' = "raised"
            /\ g_error' = Exc("ValueError", <<"Messages list cannot be empty">>)
       ELSE IF \E i \in 1..Len(messages) : ~RoleOK(messages[i].role)
       THEN /\ g_pc' = "raised"
            /\ g_error' = Exc("ValidationError", <<"role: string does not match regex">>)
       ELSE /\ g_pc' = "send"
            /\ g_error' = NoError
    /\ UNCHANGED <<attempt, requests, req_timeouts, sleeps, responses, g_result>>

\* lines 106-114: compute the timeout and post the request
SendRequest ==
    /\ g_pc = "send"
    /\ UNCHANGED <<parserVars, execVars, extVars>>
    /\ g_pc' = "wait"
    /\ requests' = requests + 1
    /\ req_timeouts' = Append(req_timeouts, RequestTimeout(attempt))
    /\ UNCHANGED <<caller, attempt, sleeps, responses, g_prompt, g_messages,
                   g_temperature, g_result, g_error>>

\* lines 116-131: a response arrives
ReceiveResponse(r) ==
    /\ g_pc = "wait"
    /\ UNCHANGED <<parserVars, execVars, extVars>>
    /\ responses' = Append(responses, r)
    /\ UNCHANGED <<caller, g_prompt, g_messages>>
    /\ IF r.status_code = 429 /\ RetryOn429(attempt)
       THEN /\ sleeps' = Append(sleeps, WaitTime(attempt))
            /\ g_pc' = "sleeping"
            /\ UNCHANGED <<attempt, requests, req_timeouts, g_temperature, g_result, g_error>>
       ELSE IF RaiseForStatus(r) # NoError
       THEN GwHandle(RaiseForStatus(r))
       ELSE IF ValidateResponse(r).exc # NoError
       THEN GwHandle(ValidateResponse(r).exc)
       ELSE /\ g_pc' = "returned"
            /\ g_result' = ValidateResponse(r).value
            /\ UNCHANGED <<attempt, requests, req_timeouts, sleeps, g_temperature, g_error>>

\* asyncio.sleep(wait_time) ends; `continue`
FinishSleep ==
    /\ g_pc = "sleeping"
    /\ UNCHANGED <<parserVars, execVars, extVars>>
    /\ GwNextIteration
    /\ UNCHANGED <<caller, requests, req_timeouts, sleeps, responses, g_prompt,
                   g_messages, g_temperature>>

\* client.post raises the timeout exception
RequestTimesOut ==
    /\ g_pc = "wait"
    /\ UNCHANGED <<parserVars, execVars, extVars>>
    /\ responses' = Append(responses, TimeoutOutcome)
    /\ GwHandle(Exc("TimeoutError", <<"timed out">>))
    /\ UNCHANGED <<caller, g_prompt, g_messages>>

\* client.post raises a connection error (an httpx.RequestError that is no timeout)
RequestFails ==
    /\ g_pc = "wait"
    /\ UNCHANGED <<parserVars, execVars, extVars>>
    /\ responses' = Append(responses, ConnectErrorOutcome)
    /\ GwHandle(Exc("ConnectError", <<"connection failed">>))
    /\ UNCHANGED <<caller, g_prompt, g_messages>>

----------------------------------------------------------------------------
(* TaskParser *)

\* self._task_handlers, in insertion order: the key (name), the key as text,
\* and the handler it maps to
_task_handlers == <<
    [name |-> "install_run_script", text |-> <<"install", "_", "run", "_", "script">>],
    [name |-> "format_markdown",    text |-> <<"format", "_", "markdown">>],
    [name |-> "count_weekday",      text |-> <<"count", "_", "weekday">>],
    [name |-> "sort_contacts",      text |-> <<"sort", "_", "contacts">>],
    [name |-> "recent_logs",        text |-> <<"recent", "_", "logs">>],
    [name |-> "extract_email",      text |-> <<"extract", "_", "email">>],
    [name |-> "markdown_index",     text |-> <<"markdown", "_", "index">>],
    [name |-> "credit_card",        text |-> <<"credit", "_", "card">>],
    [name |-> "similar_comments",   text |-> <<"similar", "_", "comments">>],
    [name |-> "ticket_sales",       text |-> <<"ticket", "_", "sales">>],
    [name |-> "fetch_api",          text |-> <<"fetch", "_", "api">>],
    [name |-> "git_operations",     text |-> <<"git", "_", "operations">> ] >>

\* the pieces a description is put together from: every table key, the
\* script name in lower and in upper case, a blank, a filler word, an
\* upper-case key and a suffix that makes two keys overlap
\* (format_markdown_index)
Pieces ==
    {_task_handlers[i].text : i \in 1..Len(_task_handlers)}
    \cup {<<"datagen.py">>, <<"DATAGEN.PY">>, <<" ">>, <<"please">>,
          <<"FORMAT", "_", "MARKDOWN">>, <<"_", "index">>}

MaxParts == 3

RECURSIVE Concat(_)
Concat(parts) == IF parts = <<>> THEN <<>> ELSE Head(parts) \o Concat(Tail(parts))

Descriptions ==
    {Concat(parts) : parts \in UNION {[1..n -> Pieces] : n \in 0..MaxParts}}

IsSpace(c) == c \in {" ", "\n", "\t"}

\* str.strip(): drop leading and trailing whitespace
RECURSIVE LStrip(_)
LStrip(s) == IF s # <<>> /\ IsSpace(Head(s)) THEN LStrip(Tail(s)) ELSE s

RECURSIVE RStrip(_)
RStrip(s) == IF s # <<>> /\ IsSpace(s[Len(s)]) THEN RStrip(SubSeq(s, 1, Len(s) - 1)) ELSE s

Strip(s) == RStrip(LStrip(s))

\* str.lower() on one piece
LowerPiece(c) == CASE c = "FORMAT"     -> "format"
                   [] c = "MARKDOWN"   -> "markdown"
                   [] c = "DATAGEN.PY" -> "datagen.py"
                   [] c = "INSTALL"    -> "install"
                   [] c = "RUN"        -> "run"
                   [] c = "SCRIPT"     -> "script"
                   [] c = "PLEASE"     -> "please"
                   [] OTHER            -> c

\* str.upper() on one piece.  "<U+0131>nstall" is the word install written
\* with the dotless i (U+0131): lower() leaves that letter as it is, upper()
\* turns it into the ASCII letter I
UpperPiece(c) == CASE c = "format"         -> "FORMAT"
                   [] c = "markdown"       -> "MARKDOWN"
                   [] c = "datagen.py"     -> "DATAGEN.PY"
                   [] c = "install"        -> "INSTALL"
                   [] c = "<U+0131>nstall" -> "INSTALL"
                   [] c = "run"            -> "RUN"
                   [] c = "script"         -> "SCRIPT"
                   [] c = "please"         -> "PLEASE"
                   [] OTHER                -> c

\* str.swapcase() on one piece
SwapCase(c) == IF UpperPiece(c) # c THEN UpperPiece(c) ELSE LowerPiece(c)

Lower(s) == [i \in 1..Len(s) |-> LowerPiece(s[i])]

\* the text is trimmed and not lower-cased
Normalize_mut(d) == Strip(d)

\* task_description.strip().lower()
Normalize(d) == Lower(Strip(d))

\* `sub in s` for text
Contains(s, sub) ==
    \E i \in 1..(Len(s) - Len(sub) + 1) :
        \A j \in 1..Len(sub) : s[i + j - 1] = sub[j]

ParsedTask(t, p) == [task_type |-> t, parameters |-> p]

EmptyDict == [x \in {} |-> <<>>]

\* the handler does not look for the script name
_handle_install_script_mut(text) ==
    Returned(ParsedTask("install_run_script",
            [script_url |-> "https://raw.githubusercontent.com/sanand0/tools-in-data-science-public/tds-2025-01/project-1/datagen.py",
             email |-> "anshuman.singh@gramener.com"]))

_handle_install_script(text) ==
    IF ~Contains(text, <<"datagen.py">>)
    THEN Raised(Exc("ValueError", <<"Invalid install script task: datagen.py not specified">>))
    ELSE Returned(ParsedTask("install_run_script",
            [script_url |-> "https://raw.githubusercontent.com/sanand0/tools-in-data-science-public/tds-2025-01/project-1/datagen.py",
             email |-> "anshuman.singh@gramener.com"]))

_handle_format_markdown(text) == Returned(ParsedTask("format_markdown", EmptyDict))

_handle_count_weekday(text) ==
    Returned(ParsedTask("count_weekday",
        [weekday |-> "wednesday", input_file |-> "data/dates.txt",
         output_file |-> "data/dates-wednesdays.txt"]))

_handle_sort_contacts(text) == Returned(ParsedTask("sort_contacts", EmptyDict))

_handle_recent_logs(text) == Returned(ParsedTask("recent_logs", EmptyDict))

_handle_extract_email(text) == Returned(ParsedTask("extract_email", EmptyDict))

_handle_markdown_index(text) ==
    Returned(ParsedTask("markdown_index",
        [input_dir |-> "/data/docs", output_file |-> "/data/docs/index.json"]))

_handle_credit_card(text) == Returned(ParsedTask("credit_card", EmptyDict))

_handle_similar_comments(text) ==
    Returned(ParsedTask("similar_comments",
        [input_file |-> "/data/comments.txt", output_file |-> "/data/comments-similar.txt"]))

_handle_ticket_sales(text) == Returned(ParsedTask("ticket_sales", EmptyDict))

_handle_fetch_api(text) ==
    Returned(ParsedTask("fetch_api",
        [url |-> "https://example.com/api", output_path |-> "/data/api_data.json"]))

_handle_git_operations(text) ==
    Returned(ParsedTask("git_operations",
        [repo_url |-> "https://github.com/example/repo.git",
         commit_message |-> "Automated commit"]))

\* the markdown_index key is wired to the format_markdown handler
CallHandler_mut(i, text) ==
    CASE i = 1  -> _handle_install_script(text)
      [] i = 2  -> _handle_format_markdown(text)
      [] i = 3  -> _handle_count_weekday(text)
      [] i = 4  -> _handle_sort_contacts(text)
      [] i = 5  -> _handle_recent_logs(text)
      [] i = 6  -> _handle_extract_email(text)
      [] i = 7  -> _handle_format_markdown(text)
      [] i = 8  -> _handle_credit_card(text)
      [] i = 9  -> _handle_similar_comments(text)
      [] i = 10 -> _handle_ticket_sales(text)
      [] i = 11 -> _handle_fetch_api(text)
      [] i = 12 -> _handle_git_operations(text)

\* self._task_handlers[handler](task_description)
CallHandler(i, text) ==
    CASE i = 1  -> _handle_install_script(text)
      [] i = 2  -> _handle_format_markdown(text)
      [] i = 3  -> _handle_count_weekday(text)
      [] i = 4  -> _handle_sort_contacts(text)
      [] i = 5  -> _handle_recent_logs(text)
      [] i = 6  -> _handle_extract_email(text)
      [] i = 7  -> _handle_markdown_index(text)
      [] i = 8  -> _handle_credit_card(text)
      [] i = 9  -> _handle_similar_comments(text)
      [] i = 10 -> _handle_ticket_sales(text)
      [] i = 11 -> _handle_fetch_api(text)
      [] i = 12 -> _handle_git_operations(text)

\* the scan keeps going and the last matching entry wins
FirstMatch_mut(text) ==
    LET hits == {i \in 1..Len(_task_handlers) : Contains(text, _task_handlers[i].text)}
    IN  IF hits = {} THEN 0
        ELSE CHOOSE i \in hits : \A h \in hits : i >= h

\* `for handler in self._task_handlers: if handler in task_description: return ...`
\* the index of the entry the loop stops at, 0 when it runs to its end
FirstMatch(text) ==
    LET hits == {i \in 1..Len(_task_handlers) : Contains(text, _task_handlers[i].text)}
    IN  IF hits = {} THEN 0
        ELSE CHOOSE i \in hits : \A h \in hits : i <= h

\* the prompt literal of _parse_with_llm, cut at its braces and at the
\* colon that ends a replacement field's name
prompt == <<
    "Analyze this task and extract key information in JSON format. Task: ",
    "{", "task_description", "}",
    " Return JSON with the following structure: ",
    "{", "\"task_type\"", ":", " \"string\", \"parameters\": ",
         "{", "// task specific parameters", "}",
    "}" >>

\* str.format(**kwargs) from piece i on, out being the text built so far:
\* a "{" opens a replacement field whose name is looked up in kwargs
\* (KeyError when absent); a "}" outside a field is a ValueError
RECURSIVE FormatFrom(_, _, _, _)
FormatFrom(tpl, kwargs, i, out) ==
    IF i > Len(tpl) THEN Returned(out)
    ELSE IF tpl[i] = "{"
    THEN IF i + 1 > Len(tpl)
         THEN Raised(Exc("ValueError", <<"Single '{' encountered in format string">>))
         ELSE IF tpl[i + 1] \notin DOMAIN kwargs
         THEN Raised(Exc("KeyError", <<"'", tpl[i + 1], "'">>))
         ELSE IF i + 2 <= Len(tpl) /\ tpl[i + 2] = "}"
         THEN FormatFrom(tpl, kwargs, i + 3, out \o kwargs[tpl[i + 1]])
         ELSE Raised(Exc("ValueError", <<"Invalid format specifier">>))
    ELSE IF tpl[i] = "}"
    THEN Raised(Exc("ValueError", <<"Single '}' encountered in format string">>))
    ELSE FormatFrom(tpl, kwargs, i + 1, Append(out, tpl[i]))

Format(tpl, kwargs) == FormatFrom(tpl, kwargs, 1, <<>>)

\* the except clause of parse_task (lines 48-50)
ParseTaskError(e) == Exc("ValueError", <<"Task parsing failed: ">> \o e.msg)

\* the `except Exception` clause of _parse_with_llm (lines 188-190)
LLMParseError(e) == Exc("ValueError", <<"Failed to parse task with LLM: ">> \o e.msg)

parserIdle ==
    /\ p_pc = "idle" /\ task_description = <<>> /\ llm_calls = 0
    /\ p_result = NoValue /\ p_error = NoError

\* a handler that fails hands over to the next key found in the text
parse_task_mut(d) ==
    LET text == Normalize(d)
        m    == FirstMatch(text)
        later == {i \in (m + 1)..Len(_task_handlers) :
                     /\ Contains(text, _task_handlers[i].text)
                     /\ CallHandler(i, text).exc = NoError}
        h    == IF m = 0 \/ CallHandler(m, text).exc = NoError \/ later = {}
                THEN CallHandler(m, text)
                ELSE CallHandler(CHOOSE i \in later : \A l \in later : i <= l, text)
        arg  == Format(prompt, [task_description |-> text])
    IN  /\ task_description' = d
        /\ UNCHANGED execVars
        /\ IF m # 0
           THEN /\ llm_calls' = llm_calls
                /\ UNCHANGED gwVars
                /\ IF h.exc = NoError
                   THEN /\ p_pc' = "returned"
                        /\ p_result' = h.value
                        /\ p_error' = NoError
                   ELSE /\ p_pc' = "raised"
                        /\ p_result' = NoValue
                        /\ p_error' = ParseTaskError(h.exc)
           ELSE IF arg.exc # NoError
           THEN /\ llm_calls' = llm_calls
                /\ UNCHANGED gwVars
                /\ p_pc' = "raised"
                /\ p_result' = NoValue
                /\ p_error' = ParseTaskError(LLMParseError(arg.exc))
           ELSE /\ llm_calls' = llm_calls + 1
                /\ p_pc' = "await_generate"
                /\ g_pc' = "send"
                /\ g_prompt' = PyStr("task prompt")
                /\ g_temperature' = 7
                /\ UNCHANGED g_messages
                /\ UNCHANGED <<attempt, requests, req_timeouts, sleeps, responses,
                               g_result, g_error>>
                /\ UNCHANGED <<p_result, p_error>>

\* parse_task(task_description), lines 37-50, with _parse_with_llm up to its
\* await (lines 160-176).  The argument of generate is evaluated before the
\* call: when prompt.format raises, generate is not called.
parse_task(d) ==
    LET text == Normalize(d)
        m    == FirstMatch(text)
        h    == CallHandler(m, text)
        arg  == Format(prompt, [task_description |-> text])
    IN  /\ task_description' = d
        /\ UNCHANGED execVars
        /\ IF m # 0
           THEN /\ llm_calls' = llm_calls
                /\ UNCHANGED gwVars
                /\ IF h.exc = NoError
                   THEN /\ p_pc' = "returned"
                        /\ p_result' = h.value
                        /\ p_error' = NoError
                   ELSE /\ p_pc' = "raised"
                        /\ p_result' = NoValue
                        /\ p_error' = ParseTaskError(h.exc)
           ELSE IF arg.exc # NoError
           THEN /\ llm_calls' = llm_calls
                /\ UNCHANGED gwVars
                /\ p_pc' = "raised"
                /\ p_result' = NoValue
                /\ p_error' = ParseTaskError(LLMParseError(arg.exc))
           ELSE /\ llm_calls' = llm_calls + 1
                /\ p_pc' = "await_generate"
                /\ g_pc' = "send"
                /\ g_prompt' = PyStr("task prompt")
                /\ g_temperature' = 7
                /\ UNCHANGED g_messages
                /\ UNCHANGED <<attempt, requests, req_timeouts, sleeps, responses,
                               g_result, g_error>>
                /\ UNCHANGED <<p_result, p_error>>

\* parse_task called on its own
ParseTask(d) ==
    /\ caller = "none"
    /\ caller' = "parse_task"
    /\ UNCHANGED extVars
    /\ parse_task(d)

----------------------------------------------------------------------------
(* InstallScriptExecutor *)

\* self.timeout
timeout == 300

\* self.max_retries of InstallScriptExecutor
executor_max_retries == 3

\* asyncio.sleep(1) between attempts
retry_pause == 1

\* client.get(script_url, timeout=30.0)
download_timeout == 30

\* os.path.join(data_dir, 'datagen.py') with data_dir = <cwd>/data
script_path == "<cwd>/data/datagen.py"

\* seconds one Tick of the wait lets pass
TickStep == 100

DefaultEmail == PyStr("anshuman.singh@gramener.com")

PyTrue == [kind |-> "bool", val |-> "True"]

PyFalse == [kind |-> "bool", val |-> "False"]

Absent == [kind |-> "absent", val |-> ""]

\* a dict with the keys whose value is not Absent
MkDict(u, e, x) ==
    LET full == [k \in {"script_url", "email", "verbose"} |->
                    CASE k = "script_url" -> u [] k = "email" -> e [] OTHER -> x]
    IN  [k \in {k \in DOMAIN full : full[k] # Absent} |-> full[k]]

\* params arguments of execute: dicts over script_url, email and one other
\* key, and a value that is not a dict
ParamInputs ==
    {[is_dict |-> TRUE, d |-> MkDict(u, e, x)] :
        u \in {Absent, PyNone, PyStr(""), PyStr("https://host-a/datagen.py"),
               PyStr("https://host-b/datagen.py")},
        e \in {Absent, PyStr(""), PyStr("user@example.com")},
        x \in {Absent, PyStr("yes")}}
    \cup {[is_dict |-> FALSE, d |-> EmptyDict]}

\* dict.get(key, default)
Get(d, k, default) == IF k \in DOMAIN d THEN d[k] ELSE default

\* d[k] = v
SetItem(d, k, v) == [x \in DOMAIN d \cup {k} |-> IF x = k THEN v ELSE d[x]]

\* bytes captured from the subprocess: valid UTF-8 text or not
Bytes(t) == [valid |-> TRUE, text |-> t]

BadBytes == [valid |-> FALSE, text |-> <<>>]

\* bytes.decode()
Decode(b) ==
    IF b.valid THEN Returned(b.text)
    ELSE Raised(Exc("UnicodeDecodeError", <<"'utf-8' codec can't decode byte">>))

\* what the subprocess can end with: return code, stdout, stderr
ExitOutcomes ==
    {[returncode |-> c, stdout |-> o.out, stderr |-> o.err] :
        c \in {0, 1, 0 - 9},
        o \in {[out |-> Bytes(<<>>), err |-> Bytes(<<>>)],
               [out |-> Bytes(<<"generated files">>), err |-> Bytes(<<"warning: slow">>)],
               [out |-> BadBytes, err |-> Bytes(<<"warning: slow">>)],
               [out |-> Bytes(<<"generated files">>), err |-> BadBytes]}}

\* response bodies a download can yield
ScriptContents == {<<"script A">>, <<"script B">>}

NoFile == <<"<no file>">>

NoProc == [state |-> "none", returncode |-> 0, stdout |-> Bytes(<<>>),
           stderr |-> Bytes(<<>>), argv |-> <<>>, script |-> NoFile]

LogRec(level, m) == [level |-> level, msg |-> m]

\* one external operation of execute: the probe and install subprocess.run
\* calls, client.get and the write of the script file; tmo = 0 is no timeout
IoRec(op, target, tmo, outcome, data) ==
    [op |-> op, target |-> target, timeout |-> tmo, outcome |-> outcome, data |-> data]

\* only positive return codes count as failure
ExitIsFailure_mut(code) == code > 0

\* `if process.returncode != 0`
ExitIsFailure(code) == code # 0

\* lines 137-144 of _run_script: [exc, value, log]
AfterCommunicate(code, out, err) ==
    LET l1 == <<LogRec("error", <<"Script failed with return code ">> \o Str(code))>>
        l2 == Append(l1, LogRec("error", <<"stdout: ">> \o out.text))
        l3 == Append(l2, LogRec("error", <<"stderr: ">> \o err.text))
    IN  IF ExitIsFailure(code)
        THEN IF Decode(out).exc # NoError
             THEN [exc |-> Decode(out).exc, value |-> NoValue, log |-> l1]
             ELSE IF Decode(err).exc # NoError
             THEN [exc |-> Decode(err).exc, value |-> NoValue, log |-> l2]
             ELSE [exc |-> Exc("RuntimeError",
                                <<"Script execution failed with code ">> \o Str(code)),
                   value |-> NoValue, log |-> l3]
        ELSE IF Decode(out).exc # NoError
             THEN [exc |-> Decode(out).exc, value |-> NoValue, log |-> <<>>]
             ELSE [exc |-> NoError, value |-> PyTrue,
                   log |-> <<LogRec("info", <<"Script output: ">> \o out.text)>>]

\* the except clause of _run_script (lines 146-148): [exc, log]
RunScriptError(e) ==
    [exc |-> Exc("RuntimeError", <<"Script execution failed: ">> \o e.msg),
     log |-> <<LogRec("error", <<"Error running script: ">> \o e.msg)>>]

\* the timeout handler raises inside _run_script's try (line 135)
TimedOutError ==
    Exc("RuntimeError", <<"Script execution timed out after ">> \o Str(timeout) \o <<" seconds">>)

\* the last failed attempt does not raise
IsLastAttempt_mut(a) == FALSE

\* _ensure_uv_installed and _download_script give up on the last attempt
IsLastAttempt(a) == a = executor_max_retries - 1

execIdle ==
    /\ e_pc = "idle" /\ params = [is_dict |-> FALSE, d |-> EmptyDict]
    /\ e_attempt = 0 /\ events = <<>> /\ e_done = {} /\ e_sleeps = <<>>
    /\ script_file = NoFile /\ proc = NoProc /\ elapsed = 0 /\ io = <<>> /\ log = <<>>
    /\ e_result = NoValue /\ e_error = NoError

\* the except clause of execute (lines 66-68): log and re-raise; lg and ev
\* are the log and the events up to the raise
ExecRaise(e, lg, ev) ==
    /\ e_pc' = "raised"
    /\ e_error' = e
    /\ log' = Append(lg, LogRec("error", <<"Error in InstallScriptExecutor: ">> \o e.msg))
    /\ events' = Append(ev, "raise")
    /\ UNCHANGED e_result

\* execute(params), lines 28-44: validation and os.makedirs
execute(p, mkdir_ok) ==
    LET script_url == Get(p.d, "script_url", PyNone)
        email      == Get(p.d, "email", DefaultEmail)
    IN  /\ params' = p
        /\ UNCHANGED <<e_attempt, e_done, e_sleeps, script_file, proc, elapsed, io>>
        /\ IF ~p.is_dict
           THEN ExecRaise(Exc("ValueError", <<"Parameters must be a dictionary">>), log, events)
           ELSE IF ~Truthy(script_url)
           THEN ExecRaise(Exc("ValueError", <<"script_url parameter is required">>), log, events)
           ELSE IF ~Truthy(email)
           THEN ExecRaise(Exc("ValueError", <<"email parameter is required">>), log, events)
           ELSE IF ~mkdir_ok
           THEN ExecRaise(Exc("OSError", <<"cannot create data directory">>),
                          log, Append(events, "makedirs"))
           ELSE /\ e_pc' = "probe"
                /\ events' = Append(events, "makedirs")
                /\ UNCHANGED <<log, e_result, e_error>>

\* execute called on its own
Execute(p, mkdir_ok) ==
    /\ caller = "none"
    /\ caller' = "execute"
    /\ UNCHANGED <<gwVars, parserVars, extVars>>
    /\ execute(p, mkdir_ok)

\* only a missing executable counts as absent
ToolAbsent_mut(outcome) == outcome = "FileNotFoundError"

\* `except (subprocess.CalledProcessError, FileNotFoundError)`, line 75
ToolAbsent(outcome) == outcome \in {"CalledProcessError", "FileNotFoundError"}

\* _ensure_uv_installed, lines 72-76: subprocess.run(['uv', '--version'])
ProbeUv(outcome) ==
    /\ e_pc = "probe"
    /\ UNCHANGED <<caller, gwVars, parserVars, extVars>>
    /\ UNCHANGED <<params, e_sleeps, script_file, proc, elapsed>>
    /\ io' = Append(io, IoRec("probe", "uv --version", 0, outcome, <<>>))
    /\ CASE outcome = "ok" ->
              /\ e_pc' = "download"
              /\ e_attempt' = 0
              /\ e_done' = e_done \cup {"ensure"}
              /\ events' = Append(events, "probe")
              /\ log' = Append(log, LogRec("info", <<"uv is already installed">>))
              /\ UNCHANGED <<e_result, e_error>>
         [] ToolAbsent(outcome) ->
              /\ e_pc' = "install"
              /\ e_attempt' = 0
              /\ events' = Append(events, "probe")
              /\ log' = Append(log, LogRec("info", <<"Installing uv...">>))
              /\ UNCHANGED <<e_done, e_result, e_error>>
         [] OTHER ->
              /\ ExecRaise(Exc(outcome, <<"cannot run uv">>), log, Append(events, "probe"))
              /\ UNCHANGED <<e_attempt, e_done>>

\* _ensure_uv_installed, lines 77-91: one pip install attempt
InstallUv(outcome) ==
    /\ e_pc = "install"
    /\ UNCHANGED <<caller, gwVars, parserVars, extVars>>
    /\ UNCHANGED <<params, script_file, proc, elapsed>>
    /\ io' = Append(io, IoRec("install", "python -m pip install uv", 0, outcome, <<>>))
    /\ CASE outcome = "ok" ->
              /\ e_pc' = "download"
              /\ e_attempt' = 0
              /\ e_done' = e_done \cup {"ensure"}
              /\ events' = Append(events, "install")
              /\ UNCHANGED <<e_sleeps, log, e_result, e_error>>
         [] outcome = "CalledProcessError" ->
              IF IsLastAttempt(e_attempt)
              THEN /\ ExecRaise(Exc("RuntimeError",
                          <<"Failed to install uv after ">> \o Str(executor_max_retries)
                              \o <<" attempts">>),
                          log, Append(events, "install"))
                   /\ UNCHANGED <<e_attempt, e_done, e_sleeps>>
              ELSE /\ events' = events \o <<"install", "sleep">>
                   /\ e_sleeps' = Append(e_sleeps, retry_pause)
                   /\ log' = Append(log, LogRec("warning",
                          <<"Attempt ">> \o Str(e_attempt + 1) \o <<" failed, retrying...">>))
                   /\ UNCHANGED <<e_done, e_result, e_error>>
                   /\ IF e_attempt + 1 < executor_max_retries
                      THEN /\ e_attempt' = e_attempt + 1
                           /\ e_pc' = "install"
                      ELSE /\ e_attempt' = 0
                           /\ e_pc' = "download"
         [] OTHER ->
              /\ ExecRaise(Exc(outcome, <<"cannot run pip">>), log, Append(events, "install"))
              /\ UNCHANGED <<e_attempt, e_done, e_sleeps>>

\* what one attempt of the download can do: the response is good and the
\* file is written; the response is good but open() fails, or f.write()
\* fails on the file that open() has truncated; the get or the status fails
DownloadOutcomes ==
    {[kind |-> "ok", content |-> c, msg |-> <<>>] : c \in ScriptContents}
    \cup {[kind |-> "open_error", content |-> <<"script A">>, msg |-> <<"cannot open file">>],
          [kind |-> "write_error", content |-> <<"script A">>, msg |-> <<"no space left">>]}
    \cup {[kind |-> "RequestError", content |-> <<>>, msg |-> <<"connection refused">>],
          [kind |-> "RequestError", content |-> <<>>, msg |-> <<"read timed out">>],
          [kind |-> "HTTPStatusError", content |-> <<>>, msg |-> <<"HTTP status 404">>]}

\* the message leaves out the error of the last attempt
DownloadError_mut(e) ==
    Exc("RuntimeError", <<"Failed to download script after ">> \o Str(executor_max_retries)
                            \o <<" attempts: ">>)

\* line 111: RuntimeError(f"Failed to download script after ... attempts: {str(e)}")
DownloadError(e) ==
    Exc("RuntimeError", <<"Failed to download script after ">> \o Str(executor_max_retries)
                            \o <<" attempts: ">> \o e.msg)

\* _download_script, lines 98-113: one attempt of the loop
DownloadScript(o) ==
    /\ e_pc = "download"
    /\ UNCHANGED <<caller, gwVars, parserVars, extVars>>
    /\ UNCHANGED <<params, proc, elapsed>>
    /\ io' = LET url == params.d["script_url"].val
                 get == IoRec("get", url, download_timeout,
                              IF o.kind \in {"ok", "open_error", "write_error"}
                              THEN "ok" ELSE o.kind,
                              IF o.kind \in {"ok", "open_error", "write_error"}
                              THEN o.content ELSE o.msg)
             IN  IF o.kind \in {"ok", "open_error", "write_error"}
                 THEN io \o <<get, IoRec("write", script_path, 0, o.kind, o.content)>>
                 ELSE Append(io, get)
    /\ CASE o.kind = "ok" ->
              /\ script_file' = o.content
              /\ events' = events \o <<"get", "write">>
              /\ log' = Append(log, LogRec("info", <<"Successfully downloaded script">>))
              /\ e_done' = e_done \cup {"download"}
              /\ e_pc' = "chmod"
              /\ UNCHANGED <<e_attempt, e_sleeps, e_result, e_error>>
         [] o.kind = "open_error" ->
              /\ ExecRaise(Exc("OSError", o.msg), log, Append(events, "get"))
              /\ UNCHANGED <<e_attempt, e_done, e_sleeps, script_file>>
         [] o.kind = "write_error" ->
              /\ script_file' = <<>>
              /\ ExecRaise(Exc("OSError", o.msg), log, Append(events, "get"))
              /\ UNCHANGED <<e_attempt, e_done, e_sleeps>>
         [] OTHER ->
              IF IsLastAttempt(e_attempt)
              THEN /\ ExecRaise(DownloadError(Exc(o.kind, o.msg)), log, Append(events, "get"))
                   /\ UNCHANGED <<e_attempt, e_done, e_sleeps, script_file>>
              ELSE /\ events' = events \o <<"get", "sleep">>
                   /\ e_sleeps' = Append(e_sleeps, retry_pause)
                   /\ log' = Append(log, LogRec("warning",
                          <<"Download attempt ">> \o Str(e_attempt + 1) \o <<" failed, retrying...">>))
                   /\ UNCHANGED <<e_done, script_file, e_result, e_error>>
                   /\ IF e_attempt + 1 < executor_max_retries
                      THEN /\ e_attempt' = e_attempt + 1
                           /\ e_pc' = "download"
                      ELSE /\ e_attempt' = 0
                           /\ e_pc' = "chmod"

\* the email read at line 34 is stored back as well
DerivePaths_mut(d) ==
    SetItem(SetItem(SetItem(d, "input_dir", PyStr("<cwd>/data/docs")),
                    "output_file", PyStr("<cwd>/data/docs/index.json")),
            "email", Get(d, "email", DefaultEmail))

\* lines 56-59: params['input_dir'] = ...; params['output_file'] = ...
DerivePaths(d) ==
    SetItem(SetItem(d, "input_dir", PyStr("<cwd>/data/docs")),
            "output_file", PyStr("<cwd>/data/docs/index.json"))

\* execute, lines 52-59: os.chmod, then the two derived paths are stored
\* into the caller's params
MakeExecutable(chmod_ok) ==
    /\ e_pc = "chmod"
    /\ UNCHANGED <<caller, gwVars, parserVars, extVars>>
    /\ UNCHANGED <<e_attempt, e_sleeps, script_file, proc, elapsed, io>>
    /\ IF ~chmod_ok
       THEN /\ ExecRaise(Exc("OSError", <<"cannot chmod script">>), log, Append(events, "chmod"))
            /\ UNCHANGED <<params, e_done>>
       ELSE /\ params' = [params EXCEPT !.d = DerivePaths(@)]
            /\ events' = events \o <<"chmod", "derive">>
            /\ e_done' = e_done \cup {"chmod", "derive"}
            /\ e_pc' = "spawn"
            /\ UNCHANGED <<log, e_result, e_error>>

\* _run_script, lines 118-126: asyncio.create_subprocess_exec
SpawnScript(spawn_ok) ==
    /\ e_pc = "spawn"
    /\ UNCHANGED <<caller, gwVars, parserVars, extVars>>
    /\ UNCHANGED <<params, e_attempt, e_done, e_sleeps, script_file, elapsed, io>>
    /\ IF ~spawn_ok
       THEN LET w == RunScriptError(Exc("OSError", <<"cannot spawn process">>))
            IN  /\ ExecRaise(w.exc, log \o w.log, Append(events, "spawn"))
                /\ UNCHANGED proc
       ELSE /\ proc' = [NoProc EXCEPT !.state = "running",
                           !.argv = <<Get(params.d, "email", DefaultEmail).val, "--root", "<cwd>/data">>,
                           !.script = script_file]
            /\ events' = Append(events, "spawn")
            /\ e_pc' = "running"
            /\ UNCHANGED <<log, e_result, e_error>>

\* time passes while wait_for(process.communicate(), timeout=self.timeout) waits
Tick ==
    /\ e_pc = "running"
    /\ elapsed < timeout
    /\ elapsed' = Min(elapsed + TickStep, timeout)
    /\ UNCHANGED <<caller, gwVars, parserVars, extVars>>
    /\ UNCHANGED <<e_pc, params, e_attempt, events, e_done, e_sleeps, script_file,
                   proc, io, log, e_result, e_error>>

\* communicate() completes before wait_for gives up: lines 137-148
ProcessExits(x) ==
    LET r == AfterCommunicate(x.returncode, x.stdout, x.stderr)
        w == RunScriptError(r.exc)
    IN  /\ e_pc = "running"
        /\ UNCHANGED <<caller, gwVars, parserVars, extVars>>
        /\ UNCHANGED <<params, e_attempt, e_sleeps, script_file, elapsed, io>>
        /\ proc' = [proc EXCEPT !.state = "exited", !.returncode = x.returncode,
                                !.stdout = x.stdout, !.stderr = x.stderr]
        /\ IF r.exc # NoError
           THEN /\ ExecRaise(w.exc, log \o r.log \o w.log, Append(events, "exit"))
                /\ UNCHANGED e_done
           ELSE /\ e_pc' = "returned"
                /\ e_result' = r.value
                /\ log' = log \o r.log
                /\ events' = events \o <<"exit", "return">>
                /\ e_done' = e_done \cup {"run"}
                /\ UNCHANGED e_error

\* the timeout handler raises without killing the process
TimeoutFires_mut(kill_ok) ==
    LET w == RunScriptError(TimedOutError)
    IN  /\ e_pc = "running"
        /\ elapsed = timeout
        /\ UNCHANGED <<caller, gwVars, parserVars, extVars>>
        /\ UNCHANGED <<params, e_attempt, e_done, e_sleeps, script_file, elapsed, proc, io>>
        /\ ExecRaise(w.exc, log \o w.log, events \o <<"timeout">>)

\* wait_for raises asyncio.TimeoutError: lines 133-135, then 146-148.
\* process.kill() raises ProcessLookupError when the process is already gone.
TimeoutFires(kill_ok) ==
    LET w == RunScriptError(IF kill_ok THEN TimedOutError
                            ELSE Exc("ProcessLookupError", <<>>))
    IN  /\ e_pc = "running"
        /\ elapsed = timeout
        /\ UNCHANGED <<caller, gwVars, parserVars, extVars>>
        /\ UNCHANGED <<params, e_attempt, e_done, e_sleeps, script_file, elapsed, io>>
        /\ proc' = [proc EXCEPT !.state = IF kill_ok THEN "killed" ELSE "gone"]
        /\ ExecRaise(w.exc, log \o w.log, events \o <<"timeout", "kill">>)

----------------------------------------------------------------------------
(* The route run_task and the dispatch it calls *)

routeIdle ==
    /\ h_pc = "idle" /\ task_info = NoValue /\ dispatched = <<>> /\ invoked = <<>>
    /\ success = NoValue /\ x_error = NoError
    /\ h_response = [status |-> 0, detail |-> <<>>]

RouteMaxParts == 2

\* the pieces a request's task text is put together from: a key with a real
\* executor, the script name, a key with another executor, a key without
\* executor and a filler word
RoutePieces ==
    {_task_handlers[1].text, <<"datagen.py">>, _task_handlers[2].text,
     _task_handlers[10].text, <<"please">>}

\* TaskRequest.task: constr(min_length=1, max_length=1000)
RouteDescriptions ==
    {Concat(parts) : parts \in UNION {[1..n -> RoutePieces] : n \in 1..RouteMaxParts}}

\* the task types execute_task has a handler for: the install executor and
\* one more executor that is known only by its interface (BaseTaskHandler)
Registered == {"install_run_script", "format_markdown"}

\* execute_task of an unknown task_type
DispatchError(t) == Exc("DispatchError", <<"No handler registered for task type: ", t>>)

\* the parameters dict of a ParsedTask as the params argument of execute
ToParams(parameters) ==
    [is_dict |-> TRUE, d |-> [k \in DOMAIN parameters |-> PyStr(parameters[k])]]

\* what BaseTaskHandler.execute can do: return a bool or raise
OtherOutcomes ==
    {[value |-> PyTrue, exc |-> NoError], [value |-> PyFalse, exc |-> NoError],
     [value |-> NoValue, exc |-> Exc("ValueError", <<"Missing required parameters: path">>)],
     [value |-> NoValue, exc |-> Exc("RuntimeError", <<"handler failed">>)]}

\* the inner handler is missing: the outer clauses see the executor's error
RouteStatus_mut(stage, e) == IF e.type = "ValueError" THEN 400 ELSE 500

\* the status the except clauses of run_task answer with.  An error of
\* execute_task is turned into HTTPException(500) by the inner clause (lines
\* 36-41); that exception is raised inside the outer try, is no ValueError
\* and leaves through `except Exception` (lines 49-54) as 500 again.  An
\* error of parse_task meets the outer clauses only (lines 43-54).
RouteStatus(stage, e) ==
    IF stage = "execute_task" THEN 500
    ELSE IF e.type = "ValueError" THEN 400 ELSE 500

\* run_task, lines 19-21: await parser.parse_task(task_req.task)
RunTask(d) ==
    /\ caller = "none"
    /\ UNCHANGED <<secVars, raceVars, normVars>>
    /\ caller' = "run_task"
    /\ h_pc' = "parse_task"
    /\ UNCHANGED <<task_info, dispatched, invoked, success, x_error, h_response>>
    /\ parse_task(d)

\* a failed parse_task is replaced by a default task
RouteAfterParse_mut ==
    /\ caller = "run_task"
    /\ UNCHANGED <<secVars, raceVars, normVars>>
    /\ h_pc = "parse_task"
    /\ p_pc \in {"returned", "raised"}
    /\ UNCHANGED <<caller, gwVars, parserVars, execVars, invoked, success, x_error>>
    /\ task_info' = (IF p_pc = "raised" THEN ParsedTask("format_markdown", EmptyDict)
                     ELSE p_result)
    /\ dispatched' = Append(dispatched, task_info')
    /\ h_pc' = "execute_task"
    /\ UNCHANGED h_response

\* run_task, lines 21-26 and 43-54: parse_task has returned or raised
RouteAfterParse ==
    /\ caller = "run_task"
    /\ UNCHANGED <<secVars, raceVars, normVars>>
    /\ h_pc = "parse_task"
    /\ p_pc \in {"returned", "raised"}
    /\ UNCHANGED <<caller, gwVars, parserVars, execVars, invoked, success, x_error>>
    /\ IF p_pc = "raised"
       THEN /\ h_response' = [status |-> RouteStatus("parse_task", p_error),
                              detail |-> p_error.msg]
            /\ h_pc' = "responded"
            /\ UNCHANGED <<task_info, dispatched>>
       ELSE /\ task_info' = p_result
            /\ dispatched' = Append(dispatched, p_result)
            /\ h_pc' = "execute_task"
            /\ UNCHANGED h_response

\* an unknown task_type is handed to the install executor
Lookup_mut(t) == IF t \in Registered THEN t ELSE "install_run_script"

\* the handler execute_task finds for a task_type, "" when there is none
Lookup(t) == IF t \in Registered THEN t ELSE ""

\* execute_task(task_info): look the handler up and call its execute
ExecuteTask(mkdir_ok) ==
    LET t == dispatched[Len(dispatched)]
        h == Lookup(t.task_type)
    IN  /\ caller = "run_task"
        /\ UNCHANGED <<secVars, raceVars, normVars>>
        /\ h_pc = "execute_task"
        /\ UNCHANGED <<caller, gwVars, parserVars, task_info, dispatched, success, h_response>>
        /\ CASE h = "" ->
                  /\ x_error' = DispatchError(t.task_type)
                  /\ h_pc' = "execute_task_done"
                  /\ UNCHANGED <<execVars, invoked>>
             [] h = "install_run_script" ->
                  /\ invoked' = Append(invoked, [task_type |-> h, params |-> ToParams(t.parameters)])
                  /\ execute(ToParams(t.parameters), mkdir_ok)
                  /\ h_pc' = "executing"
                  /\ UNCHANGED x_error
             [] OTHER ->
                  /\ invoked' = Append(invoked, [task_type |-> h, params |-> ToParams(t.parameters)])
                  /\ h_pc' = "executing_other"
                  /\ UNCHANGED <<execVars, x_error>>

\* the install executor has returned or raised: execute_task passes the
\* value or the exception on as it is
ExecutorFinishes ==
    /\ caller = "run_task"
    /\ UNCHANGED <<secVars, raceVars, normVars>>
    /\ h_pc = "executing"
    /\ e_pc \in {"returned", "raised"}
    /\ success' = e_result
    /\ x_error' = e_error
    /\ h_pc' = "execute_task_done"
    /\ UNCHANGED <<caller, gwVars, parserVars, execVars, task_info, dispatched, invoked,
                   h_response>>

\* the other executor returns or raises
OtherExecutorFinishes(o) ==
    /\ caller = "run_task"
    /\ UNCHANGED <<secVars, raceVars, normVars>>
    /\ h_pc = "executing_other"
    /\ success' = o.value
    /\ x_error' = o.exc
    /\ h_pc' = "execute_task_done"
    /\ UNCHANGED <<caller, gwVars, parserVars, execVars, task_info, dispatched, invoked,
                   h_response>>

\* run_task, lines 26-54: execute_task has returned or raised.  A falsy
\* value falls out of both try statements: run_task returns None, which the
\* response model of the route does not accept.
RouteAfterExecute ==
    /\ caller = "run_task"
    /\ UNCHANGED <<secVars, raceVars, normVars>>
    /\ h_pc = "execute_task_done"
    /\ h_pc' = "responded"
    /\ UNCHANGED <<caller, gwVars, parserVars, execVars, task_info, dispatched, invoked,
                   success, x_error>>
    /\ h_response' =
          IF x_error # NoError
          THEN [status |-> RouteStatus("execute_task", x_error),
                detail |-> <<"Task execution failed: ">> \o x_error.msg]
          ELSE IF Truthy(success)
          THEN [status |-> 200, detail |-> <<"Task executed successfully">>]
          ELSE [status |-> 500, detail |-> <<"response validation failed">>]

\* no parse_task call of the pair has been made
normIdle ==
    /\ n_pc = "idle"
    /\ n_first = [d |-> <<>>, pc |-> "idle", result |-> NoValue, error |-> NoError]
    /\ n_variant = [lead |-> <<>>, trail |-> <<>>, from |-> 1, to |-> 0]

\* nothing of the two concurrent executions has happened
raceIdle == /\ reqs = <<>> /\ disk = <<>> /\ write_log = <<>>

----------------------------------------------------------------------------
(* The path policy (SecurityCheck) and the route read_file *)

secIdle ==
    /\ s_pc = "idle" /\ s_path = NoValue /\ s_result = NoValue /\ s_error = NoError
    /\ f_trace = <<>>
    /\ f_response = [status |-> 0, detail |-> <<>>]

\* A path is a sequence of components and a component a sequence of pieces
\* of text, so that "database" = <<"data", "base">> begins with "data".
project_root == << <<"proj">> >>

\* SecurityCheck.__init__: the allowed paths
allowed_paths ==
    {project_root \o << <<"data">> >>, project_root \o << <<"logs">> >>,
     project_root \o << <<"temp">> >>}

\* SecurityCheck.__init__: the allowed extensions
allowed_extensions ==
    {".txt", ".json", ".csv", ".md", ".py", ".jpg", ".jpeg", ".png", ".gif"}

\* the directories of the file system the policy is asked about
FsDirs ==
    {<< >>, project_root}
    \cup allowed_paths
    \cup {project_root \o << <<"data">>, <<"docs">> >>,
          project_root \o << <<"data", "base">> >>,
          project_root \o << <<"src">> >>}

\* its regular files
FsFiles ==
    {project_root \o << <<"data">>, <<"a", ".txt">> >>,
     project_root \o << <<"data">>, <<"B", ".TXT">> >>,
     project_root \o << <<"data">>, <<"run", ".sh">> >>,
     project_root \o << <<"data">>, <<"README">> >>,
     project_root \o << <<"data">>, <<"docs">>, <<"n", ".md">> >>,
     project_root \o << <<"logs">>, <<"app", ".log">> >>,
     project_root \o << <<"data", "base">>, <<"b", ".txt">> >>,
     project_root \o << <<"src">>, <<"main", ".py">> >>}

\* its symbolic links, each with the path it points to
FsLinks ==
    (project_root \o << <<"data">>, <<"link", ".txt">> >>)
        :> (project_root \o << <<"src">>, <<"main", ".py">> >>)

\* Path.exists() and Path.is_file() of a resolved path
Exists(p) == p \in FsDirs \cup FsFiles

IsFile(p) == p \in FsFiles

\* the working directory relative paths are resolved against
cwd == project_root

\* Path(path).resolve() on the components of an absolute path: "." and ".."
\* are removed and symbolic links are followed
RECURSIVE ResolveFrom(_, _)
ResolveFrom(stack, rest) ==
    IF rest = <<>> THEN stack
    ELSE LET c == Head(rest)
             pushed == stack \o <<c>>
         IN  IF c = <<".">> THEN ResolveFrom(stack, Tail(rest))
             ELSE IF c = <<"..">>
             THEN ResolveFrom(IF stack = <<>> THEN stack
                              ELSE SubSeq(stack, 1, Len(stack) - 1), Tail(rest))
             ELSE IF pushed \in DOMAIN FsLinks
             THEN ResolveFrom(FsLinks[pushed], Tail(rest))
             ELSE ResolveFrom(pushed, Tail(rest))

\* Path(path).resolve() of a path argument [abs, parts]
Resolve(x) == ResolveFrom(IF x.abs THEN <<>> ELSE cwd, x.parts)

\* str(path) of an absolute path
RECURSIVE PathStr(_)
PathStr(p) ==
    IF p = <<>> THEN <<>> ELSE <<"/">> \o Head(p) \o PathStr(Tail(p))

\* str.startswith
StartsWith(s, prefix) ==
    /\ Len(prefix) <= Len(s)
    /\ SubSeq(s, 1, Len(prefix)) = prefix

\* Path.suffix: the last dot piece of the final component, "" without one
Suffix(p) ==
    IF p = <<>> THEN ""
    ELSE LET name == p[Len(p)]
             last == name[Len(name)]
         IN  IF Len(name) > 1 /\ last \in {".txt", ".TXT", ".sh", ".md", ".log", ".py", ".json"}
             THEN last ELSE ""

\* str.lower of a suffix
LowerSuffix(s) == IF s = ".TXT" THEN ".txt" ELSE s

\* the path arguments: absolute and relative ones, with "..", with nothing
\* at the path, through a link, and one that is no path at all (None)
NoPath == [abs |-> FALSE, parts |-> <<>>, bad |-> TRUE]

PathArg(abs, parts) == [abs |-> abs, parts |-> parts, bad |-> FALSE]

\* the path argument that names an absolute path as it is
AsArg(p) == PathArg(TRUE, p)

PathInputs ==
    {AsArg(p) : p \in FsFiles \cup (FsDirs \ {<< >>}) \cup DOMAIN FsLinks}
    \cup {AsArg(project_root \o << <<"data">>, <<"new", ".txt">> >>),
          AsArg(project_root \o << <<"temp">>, <<"out", ".json">> >>),
          AsArg(project_root \o << <<"data">>, <<"..">>, <<"src">>, <<"main", ".py">> >>),
          AsArg(project_root \o << <<"src">>, <<"..">>, <<"data">>, <<"a", ".txt">> >>),
          AsArg(<< <<"etc">>, <<"passwd">> >>),
          PathArg(FALSE, << <<"data">>, <<"a", ".txt">> >>),
          PathArg(FALSE, << <<"data">>, <<".">>, <<"docs">>, <<"n", ".md">> >>),
          PathArg(FALSE, << <<"..">>, <<"etc">>, <<"passwd">> >>),
          PathArg(FALSE, << <<"data", "base">>, <<"b", ".txt">> >>),
          NoPath}

\* a Path object as a Python value
PyPath(p) == [kind |-> "path", val |-> p]

\* the suffix is compared as it is written, without lower()
is_path_allowed_mut(x) ==
    IF x.bad THEN FALSE
    ELSE LET path == Resolve(x)
         IN  IF ~Exists(path) THEN FALSE
             ELSE IF ~\E allowed \in allowed_paths :
                        StartsWith(PathStr(path), PathStr(allowed))
             THEN FALSE
             ELSE IF IsFile(path) /\ Suffix(path) \notin allowed_extensions
             THEN FALSE
             ELSE TRUE

\* is_path_allowed(path), lines 60-92
is_path_allowed(x) ==
    IF x.bad THEN FALSE                                        \* except Exception
    ELSE LET path == Resolve(x)
         IN  IF ~Exists(path) THEN FALSE
             ELSE IF ~\E allowed \in allowed_paths :
                        StartsWith(PathStr(path), PathStr(allowed))
             THEN FALSE
             ELSE IF IsFile(path) /\ LowerSuffix(Suffix(path)) \notin allowed_extensions
             THEN FALSE
             ELSE TRUE

\* sanitize_path(path), lines 94-117: the resolved path, or the ValueError
\* that the handler at lines 116-117 wraps once more
sanitize_path(x) ==
    IF x.bad
    THEN [value |-> NoValue, exc |-> Exc("ValueError", <<"Invalid path: ", "TypeError">>)]
    ELSE IF ~is_path_allowed(AsArg(Resolve(x)))
    THEN [value |-> NoValue,
          exc |-> Exc("ValueError", <<"Invalid path: ", "Path not allowed: ">>
                                    \o PathStr(Resolve(x)))]
    ELSE [value |-> PyPath(Resolve(x)), exc |-> NoError]

\* a call of is_path_allowed
IsPathAllowed(x) ==
    /\ caller = "none"
    /\ caller' = "is_path_allowed"
    /\ s_path' = x
    /\ s_result' = (IF is_path_allowed(x) THEN PyTrue ELSE PyFalse)
    /\ s_pc' = "returned"
    /\ UNCHANGED <<s_error, f_trace, f_response>>
    /\ UNCHANGED <<gwVars, parserVars, execVars, routeVars, raceVars, normVars>>

\* a call of sanitize_path
SanitizePath(x) ==
    /\ caller = "none"
    /\ caller' = "sanitize_path"
    /\ s_path' = x
    /\ s_result' = sanitize_path(x).value
    /\ s_error' = sanitize_path(x).exc
    /\ s_pc' = IF sanitize_path(x).exc = NoError THEN "returned" ELSE "raised"
    /\ UNCHANGED <<f_trace, f_response>>
    /\ UNCHANGED <<gwVars, parserVars, execVars, routeVars, raceVars, normVars>>

\* the paths a FileRequest can carry: a string of 1 to 255 characters
FileRequests == PathInputs \ {NoPath}

\* what opening and reading an existing file can end in
ReadOutcomes == {"ok", "PermissionError", "UnicodeDecodeError"}

\* one entry of the trace of read_file
FileRec(op, path, outcome) == [op |-> op, path |-> path, outcome |-> outcome]

\* read_file(request, file_req), lines 19-49
ReadFile(x, o) ==
    LET path == PathArg(FALSE, x.parts)                \* lstrip('/'), line 21
        allowed == is_path_allowed(path)
        check == FileRec("check", path, IF allowed THEN "allowed" ELSE "denied")
    IN  /\ caller = "none"
        /\ caller' = "read_file"
        /\ s_path' = x
        /\ s_pc' = "responded"
        /\ UNCHANGED <<s_result, s_error>>
        /\ UNCHANGED <<gwVars, parserVars, execVars, routeVars, raceVars, normVars>>
        /\ IF ~allowed
           THEN /\ f_trace' = Append(f_trace, check)
                /\ f_response' = [status |-> 403, detail |-> <<"Access denied">>]
           ELSE IF ~Exists(Resolve(path))
           THEN /\ f_trace' = Append(f_trace, check)
                /\ f_response' = [status |-> 404, detail |-> <<"File not found">>]
           ELSE IF ~IsFile(Resolve(path))
           THEN /\ f_trace' = Append(f_trace, check)
                /\ f_response' = [status |-> 500,
                                  detail |-> <<"Error reading file: ", "Path is not a file: ">>]
           ELSE /\ f_trace' = f_trace \o <<check, FileRec("read", path, o)>>
                /\ f_response' = IF o = "ok"
                                 THEN [status |-> 200, detail |-> <<"content">>]
                                 ELSE [status |-> 500, detail |-> <<"Error reading file: ", o>>]

----------------------------------------------------------------------------

Init ==
    /\ caller = "none"
    /\ gwIdle
    /\ parserIdle
    /\ execIdle
    /\ routeIdle
    /\ secIdle
    /\ raceIdle
    /\ normIdle

Next ==
    \/ \E p \in Prompts, t \in Temperatures : Generate(p, t)
    \/ \E m \in VisionInputs, t \in Temperatures : GenerateVision(m, t)
    \/ SendRequest
    \/ \E r \in HttpResponses : ReceiveResponse(r)
    \/ FinishSleep
    \/ RequestTimesOut
    \/ RequestFails
    \/ \E d \in (IF caller = "none" THEN Descriptions ELSE {}) : ParseTask(d)
    \/ \E p \in ParamInputs, ok \in BOOLEAN : Execute(p, ok)
    \/ \E o \in {"ok", "CalledProcessError", "FileNotFoundError", "PermissionError"} : ProbeUv(o)
    \/ \E o \in {"ok", "CalledProcessError", "OSError"} : InstallUv(o)
    \/ \E o \in DownloadOutcomes : DownloadScript(o)
    \/ \E ok \in BOOLEAN : MakeExecutable(ok)
    \/ \E ok \in BOOLEAN : SpawnScript(ok)
    \/ Tick
    \/ \E x \in ExitOutcomes : ProcessExits(x)
    \/ \E ok \in BOOLEAN : TimeoutFires(ok)
    \/ \E d \in (IF caller = "none" THEN RouteDescriptions ELSE {}) : RunTask(d)
    \/ RouteAfterParse
    \/ \E ok \in BOOLEAN : ExecuteTask(ok)
    \/ ExecutorFinishes
    \/ \E o \in OtherOutcomes : OtherExecutorFinishes(o)
    \/ RouteAfterExecute
    \/ \E x \in (IF caller = "none" THEN PathInputs ELSE {}) : IsPathAllowed(x)
    \/ \E x \in (IF caller = "none" THEN PathInputs ELSE {}) : SanitizePath(x)
    \/ \E x \in (IF caller = "none" THEN FileRequests ELSE {}), o \in ReadOutcomes : ReadFile(x, o)

Spec == Init /\ [][Next]_vars

----------------------------------------------------------------------------
(* Two executions of the install executor at the same time *)

\* the two requests, served by two of the worker processes
RaceRequests == {"A", "B"}

\* the scripts behind two script_urls, as pieces of bytes of different length
RaceUrls == {"https://example.com/a/datagen.py", "https://example.com/b/datagen.py"}

RaceContent(url) ==
    IF url = "https://example.com/a/datagen.py" THEN <<"a1", "a2">> ELSE <<"b1">>

\* every execution gets a file of its own
RaceScriptPath_mut(r) == IF r = "A" THEN script_path ELSE "<cwd>/data/datagen.B.py"

\* _download_script, line 95: the path does not depend on the request
RaceScriptPath(r) == script_path

\* open(script_path, 'wb') empties the file; f.write puts the bytes at the
\* start of it and leaves what lies behind them
ApplyFileOp(content, rec) ==
    IF rec.op = "open" THEN <<>>
    ELSE rec.content \o SubSeq(content, Len(rec.content) + 1, Len(content))

\* one execution: its position, its script_url, the download attempt, what
\* its process read and how much of the log had happened by then
RaceReq(pc, url, a, ran, read_at) ==
    [pc |-> pc, url |-> url, attempt |-> a, ran |-> ran, read_at |-> read_at]

\* both requests have passed validation and makedirs (lines 30-44)
InitRace ==
    /\ caller = "race"
    /\ gwIdle /\ parserIdle /\ execIdle /\ routeIdle /\ secIdle /\ normIdle
    /\ reqs \in [RaceRequests -> {RaceReq("ensure_uv", u, 0, <<>>, 0) : u \in RaceUrls}]
    /\ disk = [p \in {RaceScriptPath(r) : r \in RaceRequests} |-> <<>>]
    /\ write_log = <<>>

RaceFrame == UNCHANGED <<caller, gwVars, parserVars, execVars, routeVars, secVars, normVars>>

\* line 47: _ensure_uv_installed returns or raises
RaceEnsureTool(r, ok) ==
    /\ caller = "race"
    /\ reqs[r].pc = "ensure_uv"
    /\ reqs' = [reqs EXCEPT ![r].pc = IF ok THEN "download" ELSE "raised"]
    /\ UNCHANGED <<disk, write_log>>
    /\ RaceFrame

\* lines 98-101 and 109-113: one attempt of the download
RaceGet(r, ok) ==
    /\ caller = "race"
    /\ reqs[r].pc = "download"
    /\ reqs' = [reqs EXCEPT ![r] =
                  IF ok THEN [@ EXCEPT !.pc = "open"]
                  ELSE IF IsLastAttempt(@.attempt) THEN [@ EXCEPT !.pc = "raised"]
                  ELSE [@ EXCEPT !.attempt = @ + 1]]
    /\ UNCHANGED <<disk, write_log>>
    /\ RaceFrame

\* line 103: open(script_path, 'wb')
RaceOpen(r) ==
    LET rec == [req |-> r, op |-> "open", content |-> <<>>]
    IN  /\ caller = "race"
        /\ reqs[r].pc = "open"
        /\ disk' = [disk EXCEPT ![RaceScriptPath(r)] = ApplyFileOp(@, rec)]
        /\ write_log' = Append(write_log, rec)
        /\ reqs' = [reqs EXCEPT ![r].pc = "write"]
        /\ RaceFrame

\* line 104: f.write(response.content), flushed when the file is closed
RaceWrite(r) ==
    LET rec == [req |-> r, op |-> "write", content |-> RaceContent(reqs[r].url)]
    IN  /\ caller = "race"
        /\ reqs[r].pc = "write"
        /\ disk' = [disk EXCEPT ![RaceScriptPath(r)] = ApplyFileOp(@, rec)]
        /\ write_log' = Append(write_log, rec)
        /\ reqs' = [reqs EXCEPT ![r].pc = "chmod"]
        /\ RaceFrame

\* line 53: os.chmod(script_path, 0o755)
RaceChmod(r, ok) ==
    /\ caller = "race"
    /\ reqs[r].pc = "chmod"
    /\ reqs' = [reqs EXCEPT ![r].pc = IF ok THEN "run" ELSE "raised"]
    /\ UNCHANGED <<disk, write_log>>
    /\ RaceFrame

\* lines 118-126: create_subprocess_exec(sys.executable, script_path, ...)
RaceSpawn(r, ok) ==
    /\ caller = "race"
    /\ reqs[r].pc = "run"
    /\ reqs' = [reqs EXCEPT ![r].pc = IF ok THEN "spawned" ELSE "raised"]
    /\ UNCHANGED <<disk, write_log>>
    /\ RaceFrame

\* the interpreter of the child process reads the script it was given
RaceChildReads(r) ==
    /\ caller = "race"
    /\ reqs[r].pc = "spawned"
    /\ reqs' = [reqs EXCEPT ![r] = [@ EXCEPT !.pc = "wait",
                                              !.ran = disk[RaceScriptPath(r)],
                                              !.read_at = Len(write_log)]]
    /\ UNCHANGED <<disk, write_log>>
    /\ RaceFrame

\* lines 128-144: the process ends, execute returns True or raises
RaceExit(r, code) ==
    /\ caller = "race"
    /\ reqs[r].pc = "wait"
    /\ reqs' = [reqs EXCEPT ![r].pc = IF code = 0 THEN "returned" ELSE "raised"]
    /\ UNCHANGED <<disk, write_log>>
    /\ RaceFrame

NextRace ==
    \/ \E r \in RaceRequests, ok \in BOOLEAN : RaceEnsureTool(r, ok)
    \/ \E r \in RaceRequests, ok \in BOOLEAN : RaceGet(r, ok)
    \/ \E r \in RaceRequests : RaceOpen(r)
    \/ \E r \in RaceRequests : RaceWrite(r)
    \/ \E r \in RaceRequests, ok \in BOOLEAN : RaceChmod(r, ok)
    \/ \E r \in RaceRequests, ok \in BOOLEAN : RaceSpawn(r, ok)
    \/ \E r \in RaceRequests : RaceChildReads(r)
    \/ \E r \in RaceRequests, code \in {0, 1} : RaceExit(r, code)

SpecRace == InitRace /\ [][NextRace]_vars

\* one generate call on its own
NextGenerate ==
    \/ \E p \in Prompts, t \in Temperatures : Generate(p, t)
    \/ SendRequest
    \/ \E r \in HttpResponses : ReceiveResponse(r)
    \/ FinishSleep
    \/ RequestTimesOut
    \/ RequestFails

\* every request that was posted yields a response, a timeout or a
\* connection error, and a sleep ends
GatewayAnswers ==
    /\ WF_vars(SendRequest)
    /\ WF_vars((\E r \in HttpResponses : ReceiveResponse(r)) \/ RequestTimesOut \/ RequestFails)
    /\ WF_vars(FinishSleep)

SpecGenerate == Init /\ [][NextGenerate]_vars /\ GatewayAnswers

----------------------------------------------------------------------------
(* parse_task on a description and on a variant of it *)

NormMaxParts == 2

\* the pieces of the descriptions that are parsed twice: a key whose builder
\* can fail, the same key written with a dotless i, a key whose builder
\* cannot fail, the script name, a word that is no key, and a blank
NormPieces ==
    {_task_handlers[1].text, <<"<U+0131>nstall", "_", "run", "_", "script">>,
     _task_handlers[2].text, <<"datagen.py">>, <<"please">>, <<" ">>}

NormDescriptions ==
    {Concat(parts) : parts \in UNION {[1..n -> NormPieces] : n \in 0..NormMaxParts}}

\* the whitespace put in front of a description or behind it
NormBlanks == {<<>>, <<" ">>, <<"\n", "\t">>}

\* d with the letters of pieces from..to changed in case and whitespace
\* added at both ends
Variant(d, v) ==
    v.lead \o [k \in 1..Len(d) |-> IF v.from <= k /\ k <= v.to THEN SwapCase(d[k]) ELSE d[k]]
           \o v.trail

\* the ways a variant of d is made
Variants(d) ==
    {[lead |-> l, trail |-> t, from |-> i, to |-> j] :
        l \in NormBlanks, t \in NormBlanks, i \in 1..Len(d), j \in 0..Len(d)}
    \cup {[lead |-> l, trail |-> t, from |-> 1, to |-> 0] : l \in NormBlanks, t \in NormBlanks}

\* the first call: parse_task(d)
ParseFirst(d) ==
    /\ caller = "none"
    /\ caller' = "parse_twice"
    /\ parse_task(d)
    /\ n_pc' = "first"
    /\ n_first' = [d |-> d, pc |-> p_pc', result |-> p_result', error |-> p_error']
    /\ UNCHANGED <<n_variant, routeVars, secVars, raceVars>>

\* the second call: parse_task on a variant of d
ParseVariant(v) ==
    /\ caller = "parse_twice"
    /\ n_pc = "first"
    /\ p_pc \in {"returned", "raised"}
    /\ parse_task(Variant(n_first.d, v))
    /\ n_pc' = "second"
    /\ n_variant' = v
    /\ UNCHANGED <<caller, n_first, routeVars, secVars, raceVars>>

NextNormalize ==
    \/ \E d \in (IF caller = "none" THEN NormDescriptions ELSE {}) : ParseFirst(d)
    \/ \E v \in (IF n_pc = "first" THEN Variants(n_first.d) ELSE {}) : ParseVariant(v)

SpecNormalize == Init /\ [][NextNormalize]_vars

----------------------------------------------------------------------------
(* Properties *)

\* C1: a generate call whose responses are [429, 429, 200] sends exactly
\* three requests, sleeps 1 s after the first 429 and 2 s after the second,
\* and returns the content of the third response.
C1_RetryThenSucceed ==
    (/\ caller = "generate"
     /\ Len(responses) = 3
     /\ responses[1].status_code = 429
     /\ responses[2].status_code = 429
     /\ responses[3].status_code = 200
     /\ responses[3].body \in {[is_json |-> TRUE, data |-> OKData(c)] : c \in Contents})
    => /\ requests = 3
       /\ sleeps = <<1, 2>>
       /\ g_pc = "returned"
       /\ g_error = NoError
       /\ g_result = responses[3].body.data.choices[1].message.content

W_C1 ==
    /\ caller = "generate"
    /\ Len(responses) = 3
    /\ responses[1].status_code = 429
    /\ responses[2].status_code = 429
    /\ responses[3] = HttpResponse(200, [is_json |-> TRUE, data |-> OKData(PyStr("beta"))])
    /\ g_pc = "returned"
    /\ g_result = PyStr("beta")

\* C2: when all three attempts of a generate call time out, the requests
\* were sent with timeouts 30, 60 and 90 seconds in that order and the call
\* fails after the third with an error naming the attempt count 3.
C2_TimeoutExhaustion ==
    (/\ caller = "generate"
     /\ Len(responses) = 3
     /\ \A i \in 1..3 : responses[i].kind = "timeout")
    => /\ req_timeouts = <<30, 60, 90>>
       /\ requests = 3
       /\ g_pc = "raised"
       /\ g_result = NoValue
       /\ g_error = Exc("RuntimeError", <<"Request timed out after ", "3", " attempts">>)

W_C2 ==
    /\ caller = "generate"
    /\ Len(responses) = 3
    /\ \A i \in 1..3 : responses[i].kind = "timeout"
    /\ g_pc = "raised"

\* C3: whatever the per-attempt outcomes, a generate or generate_vision call
\* never sends more than 3 requests.
C3_AtMostThreeRequests ==
    caller \in {"generate", "generate_vision"} => requests <= 3 /\ Len(req_timeouts) <= 3

W_C3 ==
    /\ caller = "generate_vision"
    /\ requests = 3
    /\ g_pc = "raised"
    /\ responses[3].status_code = 429

\* C4 (as amended): when the description contains a table keyword, no
\* keyword earlier in the table occurs in the trimmed, lower-cased
\* description and, for install_run_script, datagen.py occurs in it too,
\* parse_task returns a ParsedTask with that keyword as task_type, whatever
\* surrounds the keyword; the result is a function of the description.
C4_KeywordClassified ==
    LET text == Normalize(task_description)
    IN  (caller = "parse_task" /\ p_pc # "idle") =>
            \A i \in 1..Len(_task_handlers) :
                (/\ Contains(task_description, _task_handlers[i].text)
                 /\ \A h \in 1..(i - 1) : ~Contains(text, _task_handlers[h].text)
                 /\ (_task_handlers[i].name = "install_run_script"
                        => Contains(text, <<"datagen.py">>)))
                => /\ p_pc = "returned"
                   /\ p_error = NoError
                   /\ p_result.task_type = _task_handlers[i].name

\* C4 as stated: every description containing a table keyword yields a
\* ParsedTask with that keyword as task_type.
C4_AsStated ==
    (caller = "parse_task" /\ p_pc # "idle") =>
        \A i \in 1..Len(_task_handlers) :
            Contains(task_description, _task_handlers[i].text)
            => /\ p_pc = "returned"
               /\ p_result.task_type = _task_handlers[i].name

W_C4 ==
    /\ caller = "parse_task"
    /\ task_description = <<"please", "markdown", "_", "index", "please">>
    /\ p_pc = "returned"
    /\ p_result.task_type = "markdown_index"

\* C5: when two or more table keywords match the description, the task_type
\* parse_task returns is the one that comes first in the table's insertion
\* order, wherever the keywords stand in the text.
C5_FirstInTableWins ==
    LET text == Normalize(task_description)
        hits == {i \in 1..Len(_task_handlers) : Contains(text, _task_handlers[i].text)}
    IN  (caller = "parse_task" /\ p_pc = "returned" /\ Cardinality(hits) >= 2) =>
            \A i \in hits :
                IF \A h \in hits : i <= h
                THEN p_result.task_type = _task_handlers[i].name
                ELSE p_result.task_type # _task_handlers[i].name

W_C5 ==
    /\ caller = "parse_task"
    /\ task_description = <<"git", "_", "operations", " ", "sort", "_", "contacts">>
    /\ p_pc = "returned"
    /\ p_result.task_type = "sort_contacts"

\* C6: for a description in which (after trim and lower-case) no table
\* keyword occurs, parse_task calls the gateway's generate exactly once.
C6_DelegatesOnce ==
    LET text == Normalize(task_description)
    IN  (/\ caller = "parse_task"
         /\ p_pc \in {"returned", "raised"}
         /\ \A i \in 1..Len(_task_handlers) : ~Contains(text, _task_handlers[i].text))
        => llm_calls = 1

C9_TimeoutKillsThenFails ==
    \A i \in 1..Len(events) :
        events[i] = "timeout" =>
            /\ elapsed = 300
            /\ Len(events) = i + 2
            /\ events[i + 1] = "kill"
            /\ events[i + 2] = "raise"
            /\ proc.state # "running"
            /\ e_pc = "raised"
            /\ e_error.type = "RuntimeError"
            /\ e_result = NoValue

W_C9 ==
    /\ \E i \in 1..Len(events) : events[i] = "timeout"
    /\ proc.state = "killed"
    /\ e_pc = "raised"
    /\ e_error.msg = <<"Script execution failed: ", "Script execution timed out after ",
                       "3", "0", "0", " seconds">>

\* C10: the stages of execute run in the order ensure-tool, download,
\* mark-executable, derive-paths, run-subprocess; a stage starts only after
\* every earlier stage has succeeded, no earlier stage is entered again, and
\* nothing runs after a failure.
C10_StagesInOrder ==
    LET Rank(ev) == CASE ev \in {"probe", "install"} -> 1
                      [] ev \in {"get", "write"} -> 2
                      [] ev = "chmod" -> 3
                      [] ev = "derive" -> 4
                      [] ev \in {"spawn", "exit", "timeout", "kill"} -> 5
                      [] OTHER -> 0
        StageAt(r) == CASE r = 1 -> "ensure" [] r = 2 -> "download"
                        [] r = 3 -> "chmod" [] r = 4 -> "derive" [] OTHER -> "run"
    IN  /\ \A i, j \in 1..Len(events) :
              (i < j /\ Rank(events[i]) # 0 /\ Rank(events[j]) # 0)
              => Rank(events[i]) <= Rank(events[j])
        /\ \A j \in 1..Len(events) :
              \A r \in 1..4 : r < Rank(events[j]) => StageAt(r) \in e_done
        /\ \A i \in 1..Len(events) : events[i] = "raise" => i = Len(events)
        /\ e_pc = "raised" <=> (events # <<>> /\ events[Len(events)] = "raise")

W_C10 ==
    /\ e_pc = "returned"
    /\ e_result = PyTrue
    /\ e_done = {"ensure", "download", "chmod", "derive", "run"}
    /\ \E i \in 1..Len(events) : events[i] = "install"
    /\ \E i \in 1..Len(events) : events[i] = "sleep"

\* C11: the download makes at most 3 fetches of script_url, each with a
\* 30-second timeout; every failed fetch but the third is followed by a
\* 1-second pause; the first good response ends the loop and its body is
\* written to data/datagen.py; a third failure raises the fatal error that
\* carries the third fetch's error; a failed fetch never writes the file.
C11_DownloadRetries ==
    LET gets   == SelectSeq(io, LAMBDA r : r.op = "get")
        writes == SelectSeq(io, LAMBDA r : r.op = "write")
        n      == Len(gets)
        Failed(r) == r.outcome # "ok"
        GetsUpTo(j) == Len(SelectSeq(SubSeq(events, 1, j), LAMBDA ev : ev = "get"))
    IN  /\ n <= 3
        /\ \A i \in 1..n : /\ gets[i].target = params.d["script_url"].val
                           /\ gets[i].timeout = 30
                           /\ i < n => Failed(gets[i])
        /\ \A j \in 1..Len(events) :
              events[j] = "get" =>
                 /\ j < Len(events)
                 /\ events[j + 1] = IF ~Failed(gets[GetsUpTo(j)])
                                    THEN (IF writes[1].outcome = "ok" THEN "write" ELSE "raise")
                                    ELSE IF GetsUpTo(j) < 3 THEN "sleep" ELSE "raise"
        /\ \A i \in 1..Len(e_sleeps) : e_sleeps[i] = 1
        /\ Len(e_sleeps) = Len(SelectSeq(events, LAMBDA ev : ev = "sleep"))
        /\ Len(writes) = (IF n > 0 /\ ~Failed(gets[n]) THEN 1 ELSE 0)
        /\ \A i \in 1..Len(writes) : /\ writes[i].target = "<cwd>/data/datagen.py"
                                     /\ writes[i].data = gets[n].data
        /\ IF writes # <<>> /\ writes[1].outcome = "ok"
           THEN script_file = gets[n].data
           ELSE writes = <<>> => script_file = NoFile
        /\ (n = 3 /\ Failed(gets[3])) =>
              /\ e_pc = "raised"
              /\ e_error = Exc("RuntimeError",
                               <<"Failed to download script after ", "3", " attempts: ">>
                                   \o gets[3].data)

W_C11 ==
    LET gets == SelectSeq(io, LAMBDA r : r.op = "get")
    IN  /\ Len(gets) = 3
        /\ \A i \in 1..3 : gets[i].outcome # "ok"
        /\ gets[1].data # gets[3].data
        /\ e_pc = "raised"
        /\ script_file = NoFile

\* C12: the ensure-tool stage starts with one probe for the uv executable;
\* a successful probe is followed by no installation; when the probe finds
\* it absent, installation is tried at most 3 times, every failed try but
\* the third followed by a 1-second pause, and stops at the first success;
\* the third failure raises the fatal error and no later stage runs.
C12_EnsureTool ==
    LET probes   == SelectSeq(io, LAMBDA r : r.op = "probe")
        installs == SelectSeq(io, LAMBDA r : r.op = "install")
        ni       == Len(installs)
        InstallsUpTo(j) == Len(SelectSeq(SubSeq(events, 1, j), LAMBDA ev : ev = "install"))
    IN  /\ io # <<>> => io[1].op = "probe"
        /\ Len(probes) <= 1
        /\ (probes # <<>> /\ probes[1].outcome = "ok") => ni = 0
        /\ (probes # <<>> /\ probes[1].outcome \in {"CalledProcessError", "FileNotFoundError"})
              => (ni > 0 \/ e_pc = "install")
        /\ ni <= 3
        /\ \A i \in 1..ni : i < ni => installs[i].outcome = "CalledProcessError"
        /\ \A j \in 1..Len(events) :
              events[j] = "install" =>
                 LET k == InstallsUpTo(j)
                 IN  IF installs[k].outcome = "CalledProcessError"
                     THEN /\ j < Len(events)
                          /\ events[j + 1] = IF k < 3 THEN "sleep" ELSE "raise"
                          /\ k < 3 => e_sleeps[k] = 1
                     ELSE j < Len(events) => events[j + 1] \notin {"sleep", "install"}
        /\ (ni = 3 /\ installs[3].outcome = "CalledProcessError") =>
              /\ e_pc = "raised"
              /\ e_error = Exc("RuntimeError", <<"Failed to install uv after ", "3", " attempts">>)
              /\ \A i \in 1..Len(io) : io[i].op \in {"probe", "install"}
              /\ script_file = NoFile /\ proc = NoProc

W_C12 ==
    LET installs == SelectSeq(io, LAMBDA r : r.op = "install")
    IN  /\ Len(installs) = 3
        /\ io[1].op = "probe" /\ io[1].outcome = "FileNotFoundError"
        /\ \A i \in 1..3 : installs[i].outcome = "CalledProcessError"
        /\ e_sleeps = <<1, 1>>
        /\ e_pc = "raised"

\* C13: when params is not a mapping, or its script_url is missing, None or
\* empty, execute fails with a validation error before any stage: nothing is
\* probed, installed, fetched, written or spawned and nothing is retried.
\* When params has no email, the subprocess gets the fixed fallback address.
C13_ValidationBeforeStages ==
    LET Invalid == \/ ~params.is_dict
                   \/ "script_url" \notin DOMAIN params.d
                   \/ params.d["script_url"] \in {PyNone, PyStr("")}
    IN  caller = "execute" =>
           /\ Invalid =>
                 /\ e_pc = "raised"
                 /\ e_error.type = "ValueError"
                 /\ events = <<"raise">>
                 /\ io = <<>>
                 /\ script_file = NoFile
                 /\ proc = NoProc
                 /\ e_sleeps = <<>> /\ e_attempt = 0
           /\ ("email" \notin DOMAIN params.d /\ proc.state # "none") =>
                 proc.argv[1] = "anshuman.singh@gramener.com"

W_C13 ==
    /\ caller = "execute"
    /\ params.is_dict
    /\ "script_url" \in DOMAIN params.d
    /\ params.d["script_url"] = PyStr("")
    /\ "email" \notin DOMAIN params.d
    /\ e_pc = "raised"
    /\ e_error = Exc("ValueError", <<"script_url parameter is required">>)

\* C14: a 429 answer to the first or second request is followed by a sleep
\* and the call goes on to another request; a 429 answer to the third
\* request makes the call raise, with no sleep after it and no fourth request.
C14_RateLimitOnLastAttempt ==
    LET Is429(r) == r.kind = "http" /\ r.status_code = 429
        N429(i)  == Len(SelectSeq(SubSeq(responses, 1, i), Is429))
    IN  caller \in {"generate", "generate_vision"} =>
           \A i \in 1..Len(responses) :
              Is429(responses[i]) =>
                 IF i < 3
                 THEN /\ Len(sleeps) >= N429(i)
                      /\ Len(responses) = i => g_pc \in {"sleeping", "send", "wait"}
                      /\ (Len(responses) = i /\ g_pc = "wait") => requests = i + 1
                 ELSE /\ g_pc = "raised"
                      /\ g_error.type = "RuntimeError"
                      /\ requests = 3
                      /\ Len(sleeps) = N429(2)

W_C14 ==
    /\ caller = "generate"
    /\ Len(responses) = 3
    /\ \A i \in 1..3 : responses[i].kind = "http" /\ responses[i].status_code = 429
    /\ sleeps = <<1, 2>>
    /\ requests = 3
    /\ g_pc = "raised"

\* C15: an answer with an error status other than 429 ends the call at once
\* with the fatal API error: it is the last response, no request and no sleep
\* follows it, on the first attempt as on the last.
C15_OtherStatusFatal ==
    LET Is429(r) == r.kind = "http" /\ r.status_code = 429
        N429(i)  == Len(SelectSeq(SubSeq(responses, 1, i), Is429))
    IN  caller \in {"generate", "generate_vision"} =>
           \A i \in 1..Len(responses) :
              (responses[i].kind = "http" /\ responses[i].status_code >= 400
                  /\ responses[i].status_code # 429) =>
                 /\ i = Len(responses)
                 /\ g_pc = "raised"
                 /\ g_error.type = "RuntimeError"
                 /\ g_error.msg[1] = "API request failed: "
                 /\ requests = i
                 /\ Len(sleeps) = N429(i - 1)

W_C15 ==
    /\ caller = "generate"
    /\ Len(responses) = 1
    /\ responses[1].kind = "http" /\ responses[1].status_code = 404
    /\ attempt = 0 /\ requests = 1 /\ sleeps = <<>>
    /\ g_pc = "raised"

\* C16: a 200 answer whose JSON body has no choices, an empty choices list, a
\* first choice without message or a message without content ends the call
\* without retry with an error that names itself "Invalid API response
\* format" and does not carry the prefix of the HTTP-status error, of the
\* timeout error or of the catch-all error that transport failures get.
C16_InvalidResponseFormat ==
    LET Wrong(b) == /\ b.is_json
                    /\ \/ "choices" \notin DOMAIN b.data
                       \/ b.data.choices = <<>>
                       \/ "message" \notin DOMAIN b.data.choices[1]
                       \/ "content" \notin DOMAIN b.data.choices[1].message
    IN  caller \in {"generate", "generate_vision"} =>
           \A i \in 1..Len(responses) :
              (responses[i].kind = "http" /\ responses[i].status_code = 200
                  /\ Wrong(responses[i].body)) =>
                 /\ i = Len(responses)
                 /\ requests = i
                 /\ g_pc = "raised"
                 /\ Contains(g_error.msg, <<"Invalid API response format: ">>)
                 /\ g_error.msg[1] \notin {"API request failed: ", "LLM request failed: ",
                                           "Request timed out after "}

\* C17: generate called with an empty or non-string prompt, or with a
\* temperature below 0 or above 1, fails with a validation error; no request
\* is sent for such a call and nothing is retried.
C17_GenerateValidates ==
    LET BadPrompt == g_prompt.kind # "str" \/ g_prompt.val = ""
        BadTemperature == g_temperature < 0 \/ g_temperature > 10
    IN  (caller = "generate" /\ (BadPrompt \/ BadTemperature)) =>
           /\ g_pc = "raised"
           /\ g_error.type = "ValueError"
           /\ requests = 0 /\ req_timeouts = <<>>
           /\ responses = <<>> /\ sleeps = <<>> /\ attempt = 0

W_C17 ==
    /\ caller = "generate"
    /\ g_prompt.kind = "str" /\ g_prompt.val # ""
    /\ g_temperature = 11
    /\ g_pc = "raised"
    /\ g_error = Exc("ValueError", <<"Temperature must be between 0 and 1">>)
    /\ requests = 0

\* C19: when the trimmed, lower-cased description contains install_run_script
\* and datagen.py, parse_task returns task_type install_run_script with the
\* one fixed script_url and email, the same for every such description; when
\* it contains install_run_script without datagen.py, parse_task fails with a
\* validation error.
C19_InstallScriptNeedsDatagen ==
    LET text == Normalize(task_description)
    IN  (caller = "parse_task"
            /\ Contains(text, <<"install", "_", "run", "_", "script">>)) =>
           IF Contains(text, <<"datagen.py">>)
           THEN /\ p_pc = "returned"
                /\ p_result =
                      [task_type |-> "install_run_script",
                       parameters |->
                          [script_url |-> "https://raw.githubusercontent.com/sanand0/tools-in-data-science-public/tds-2025-01/project-1/datagen.py",
                           email |-> "anshuman.singh@gramener.com"]]
           ELSE /\ p_pc = "raised"
                /\ p_error = Exc("ValueError",
                      <<"Task parsing failed: ",
                        "Invalid install script task: datagen.py not specified">>)
                /\ p_result = NoValue

W_C19 ==
    /\ caller = "parse_task"
    /\ task_description = <<"git", "_", "operations", "install", "_", "run", "_", "script",
                            "DATAGEN.PY">>
    /\ p_pc = "returned"
    /\ p_result.task_type = "install_run_script"

\* C20: in the gateway request loop and in the script download loop alike, a
\* connection failure on the first or second attempt does not end the call:
\* a backoff delay and another attempt follow; only a failure of the third
\* attempt becomes the fatal transport error.
C20_ConnectionFailureTransient ==
    LET gets == SelectSeq(io, LAMBDA r : r.op = "get")
    IN  /\ caller \in {"generate", "generate_vision"} =>
              \A i \in 1..Len(responses) :
                 (responses[i].kind = "connect_error" /\ i < 3 /\ Len(responses) = i) =>
                    /\ g_pc \in {"sleeping", "send", "wait"}
                    /\ sleeps # <<>>
        /\ caller = "execute" =>
              \A k \in 1..Len(gets) :
                 (gets[k].outcome = "RequestError" /\ Len(gets) = k) =>
                    IF k < 3
                    THEN /\ e_pc = "download"
                         /\ events[Len(events)] = "sleep"
                         /\ e_sleeps # <<>>
                    ELSE /\ e_pc = "raised"
                         /\ e_error.type = "RuntimeError"

\* C26: generate_vision called with a temperature below 0 or above 1, or
\* with an empty message list, fails with a validation error and sends no
\* request.
C26_VisionValidates ==
    LET BadTemperature == g_temperature < 0 \/ g_temperature > 10
    IN  (caller = "generate_vision" /\ (g_messages = <<>> \/ BadTemperature)) =>
           /\ g_pc = "raised"
           /\ g_error.type \in {"ValueError", "ValidationError"}
           /\ requests = 0 /\ req_timeouts = <<>>
           /\ responses = <<>> /\ sleeps = <<>>

\* C28: a step of execute changes the caller's params only by setting
\* input_dir and output_file: every other key keeps its value, no other key
\* appears (an absent email stays absent) and none disappears; the two keys
\* are in params exactly when ensure-tool, download and mark-executable have
\* succeeded, whatever happens in the run stage afterwards.
C28_ParamsFrame ==
    [][LET Derived == {"input_dir", "output_file"}
           Frame ==
              /\ params'.is_dict = params.is_dict
              /\ DOMAIN params.d \subseteq DOMAIN params'.d
              /\ DOMAIN params'.d \subseteq DOMAIN params.d \cup Derived
              /\ \A k \in DOMAIN params.d \ Derived : params'.d[k] = params.d[k]
           KeysExactly ==
              e_pc' # "idle" =>
                 IF {"ensure", "download", "chmod"} \subseteq e_done'
                 THEN /\ Derived \subseteq DOMAIN params'.d
                      /\ params'.d["input_dir"] = PyStr("<cwd>/data/docs")
                      /\ params'.d["output_file"] = PyStr("<cwd>/data/docs/index.json")
                 ELSE Derived \cap DOMAIN params'.d = {}
       IN  (e_pc # "idle" => Frame) /\ KeysExactly]_vars

W_C28 ==
    /\ e_pc = "raised"
    /\ proc.state = "exited" /\ proc.returncode = 1
    /\ DOMAIN params.d = {"script_url", "verbose", "input_dir", "output_file"}
    /\ params.d["verbose"] = PyStr("yes")

\* C29: execute returns True exactly when ensure-tool, download,
\* mark-executable and derive-paths succeeded and the subprocess exited with
\* code 0 before the timeout; it returns no other value, and every other
\* finished call has raised an error.
C29_TrueOrRaise ==
    LET Success == /\ {"ensure", "download", "chmod", "derive"} \subseteq e_done
                   /\ proc.state = "exited"
                   /\ proc.returncode = 0
    IN  /\ e_pc = "returned" <=> Success
        /\ e_pc = "returned" => e_result = PyTrue
        /\ e_pc # "returned" => e_result = NoValue
        /\ e_pc = "raised" => e_error # NoError

\* C21: execute_task called with a task_type that has no registered handler
\* fails with the dispatch error; no executor is invoked for it, and
\* execute_task is not called again.
C21_UnknownTypeDispatchError ==
    (/\ dispatched # <<>>
     /\ dispatched[1].task_type \notin {"install_run_script", "format_markdown"}
     /\ h_pc # "execute_task") =>
        /\ x_error.type = "DispatchError"
        /\ success = NoValue
        /\ invoked = <<>>
        /\ e_pc = "idle" /\ io = <<>>
        /\ Len(dispatched) = 1
        /\ h_pc \in {"execute_task_done", "responded"}

W_C21 ==
    /\ caller = "run_task"
    /\ dispatched # <<>>
    /\ dispatched[1].task_type = "ticket_sales"
    /\ h_pc = "responded"
    /\ h_response.status = 500
    /\ invoked = <<>>

\* C22: a request whose parse_task fails is answered with status 400; a
\* request whose parse_task succeeds and whose execute_task raises, whatever
\* the exception (a ValueError of the executor included), is answered with
\* status 500; 400 is given only for a failed parse_task and 500 never for it.
C22_StatusMapping ==
    (caller = "run_task" /\ h_pc = "responded") =>
        /\ p_pc = "raised" => h_response.status = 400
        /\ (p_pc = "returned" /\ x_error # NoError) => h_response.status = 500
        /\ h_response.status = 400 => (p_pc = "raised" /\ dispatched = <<>>)
        /\ h_response.status = 500 => p_pc = "returned"

W_C22 ==
    /\ caller = "run_task"
    /\ h_pc = "responded"
    /\ p_pc = "returned"
    /\ x_error.type = "ValueError"
    /\ h_response.status = 500

\* C27: within one request execute_task is called at most once, only after
\* parse_task has returned and with the value it returned; a failed
\* parse_task is followed by no call and no executor; an executor is invoked
\* at most once, also after it raised.
C27_SequentialPipeline ==
    caller = "run_task" =>
        /\ Len(dispatched) <= 1
        /\ dispatched # <<>> => (p_pc = "returned" /\ dispatched[1] = p_result)
        /\ p_pc # "returned" => (dispatched = <<>> /\ invoked = <<>> /\ e_pc = "idle")
        /\ Len(invoked) <= 1
        /\ invoked # <<>> =>
              /\ dispatched # <<>>
              /\ invoked[1].task_type = dispatched[1].task_type
        /\ e_pc # "idle" =>
              (invoked # <<>> /\ invoked[1].task_type = "install_run_script")

W_C27 ==
    /\ caller = "run_task"
    /\ h_pc = "responded"
    /\ Len(invoked) = 1
    /\ e_pc = "raised"
    /\ x_error = e_error
    /\ h_response.status = 500

\* a resolved path is one of the allowed roots or lies below one
UnderAllowedRoot(p) ==
    \E root \in allowed_paths :
        /\ Len(p) >= Len(root)
        /\ SubSeq(p, 1, Len(root)) = root

\* the extension of a resolved path is an allowed one
HasAllowedExtension(p) == LowerSuffix(Suffix(p)) \in allowed_extensions

\* C23 as stated: every path that resolves to a place under an allowed root
\* and has an allowed extension is accepted, whether or not anything exists
\* there: is_path_allowed returns True and sanitize_path returns the
\* resolved path.
C23_AllowedAccepted ==
    (/\ caller \in {"is_path_allowed", "sanitize_path"}
     /\ ~s_path.bad
     /\ UnderAllowedRoot(Resolve(s_path))
     /\ HasAllowedExtension(Resolve(s_path)))
    => /\ caller = "is_path_allowed" => s_result = PyTrue
       /\ caller = "sanitize_path" =>
             /\ s_pc = "returned"
             /\ s_result = PyPath(Resolve(s_path))

\* C23 amended: every path at which something exists and that resolves to a
\* place under an allowed root and has an allowed extension is accepted:
\* is_path_allowed returns True and sanitize_path returns the resolved path.
\* A path at which nothing exists is rejected by both.
C23_ExistingAllowedAccepted ==
    (/\ caller \in {"is_path_allowed", "sanitize_path"}
     /\ ~s_path.bad)
    => LET p == Resolve(s_path)
       IN  /\ (Exists(p) /\ UnderAllowedRoot(p) /\ HasAllowedExtension(p))
              => /\ caller = "is_path_allowed" => s_result = PyTrue
                 /\ caller = "sanitize_path" =>
                       /\ s_pc = "returned"
                       /\ s_result = PyPath(p)
           /\ ~Exists(p)
              => /\ caller = "is_path_allowed" => s_result = PyFalse
                 /\ caller = "sanitize_path" =>
                       /\ s_pc = "raised"
                       /\ s_error.type = "ValueError"

\* sanitize_path was given src/../data/a.txt and returned the resolved
\* path data/a.txt
W_C23 ==
    /\ caller = "sanitize_path"
    /\ s_pc = "returned"
    /\ s_path = AsArg(project_root \o << <<"src">>, <<"..">>, <<"data">>, <<"a", ".txt">> >>)
    /\ s_result = PyPath(project_root \o << <<"data">>, <<"a", ".txt">> >>)

\* C24: every path that resolves to a place outside the allowed roots, and
\* every file whose extension is not allowed, is rejected: is_path_allowed
\* returns False and sanitize_path raises a ValueError.
C24_OutsideRejected ==
    (/\ caller \in {"is_path_allowed", "sanitize_path"}
     /\ ~s_path.bad
     /\ \/ ~UnderAllowedRoot(Resolve(s_path))
        \/ IsFile(Resolve(s_path)) /\ ~HasAllowedExtension(Resolve(s_path)))
    => /\ caller = "is_path_allowed" => s_result = PyFalse
       /\ caller = "sanitize_path" =>
             /\ s_pc = "raised"
             /\ s_error.type = "ValueError"

\* C25: every write of a file by the install executor and every read of a
\* file by the route read_file comes after a path-policy check of that very
\* path that answered "allowed".
C25_CheckedBeforeAccess ==
    /\ \A i \in 1..Len(io) :
          io[i].op = "write"
          => \E j \in 1..(i - 1) :
                /\ io[j].op = "check"
                /\ io[j].target = io[i].target
                /\ io[j].outcome = "allowed"
    /\ \A i \in 1..Len(f_trace) :
          f_trace[i].op = "read"
          => \E j \in 1..(i - 1) :
                /\ f_trace[j].op = "check"
                /\ f_trace[j].path = f_trace[i].path
                /\ f_trace[j].outcome = "allowed"

\* what a sequence of opens and writes leaves in one file that was empty
RECURSIVE ReplayFileOps(_)
ReplayFileOps(ops) ==
    IF ops = <<>> THEN <<>>
    ELSE ApplyFileOp(ReplayFileOps(SubSeq(ops, 1, Len(ops) - 1)), ops[Len(ops)])

\* C30: two executions at the same time are not coordinated on
\* data/datagen.py: what the process of a request runs is whatever the opens
\* and writes of both requests, in the order they happened, have left in the
\* one file by the time the process reads it, and not the request's own
\* download.
C30_UncoordinatedScriptPath ==
    caller = "race" =>
        \A r \in RaceRequests :
            reqs[r].pc \in {"wait", "returned", "raised"} /\ reqs[r].read_at > 0
            => reqs[r].ran = ReplayFileOps(SubSeq(write_log, 1, reqs[r].read_at))

\* A wrote its script, B then wrote the script of another script_url over
\* it, and the process of A ran exactly the script of B
W_C30 ==
    /\ caller = "race"
    /\ reqs["A"].url # reqs["B"].url
    /\ reqs["A"].pc = "returned"
    /\ reqs["A"].ran = RaceContent(reqs["B"].url)
    /\ reqs["A"].ran # RaceContent(reqs["A"].url)
    /\ \E i, j \in 1..Len(write_log) :
          /\ i < j /\ j <= reqs["A"].read_at
          /\ write_log[i] = [req |-> "A", op |-> "write", content |-> RaceContent(reqs["A"].url)]
          /\ write_log[j] = [req |-> "B", op |-> "write", content |-> RaceContent(reqs["B"].url)]

\* C31: when every posted request is answered (response, timeout or
\* connection error), every generate call ends, and it ends by returning
\* the content of the response it got last, a 200, or by raising an error:
\* the retry loop never runs out of attempts and returns without a value.
C31_GenerateTerminates ==
    (caller = "generate")
    ~> (\/ g_pc = "raised" /\ g_error # NoError
        \/ /\ g_pc = "returned"
           /\ responses # <<>>
           /\ responses[Len(responses)].kind = "http"
           /\ responses[Len(responses)].status_code = 200
           /\ ValidateResponse(responses[Len(responses)]).exc = NoError
           /\ g_result = ValidateResponse(responses[Len(responses)]).value)

\* a call used all three attempts on a timeout, a 429 and a timeout and
\* ended with an error
W_C31 ==
    /\ caller = "generate"
    /\ Len(responses) = max_retries
    /\ responses[1].kind = "timeout"
    /\ responses[2].status_code = 429
    /\ responses[3].kind = "timeout"
    /\ g_pc = "raised"
    /\ g_error.type = "RuntimeError"

\* the sleeps the claim of C32 expects after the outcomes of attempts
\* 0 .. n-1: min(2^a, 8) after a 429 at attempt a < 2, nothing otherwise
RECURSIVE C32_ExpectedSleeps(_, _)
C32_ExpectedSleeps(outcomes, n) ==
    IF n = 0 THEN <<>>
    ELSE C32_ExpectedSleeps(outcomes, n - 1)
         \o (IF outcomes[n].status_code = 429 /\ n - 1 < 2
             THEN <<Min(Pow2(n - 1), 8)>> ELSE <<>>)

RECURSIVE C32_Sum(_)
C32_Sum(s) == IF s = <<>> THEN 0 ELSE Head(s) + C32_Sum(Tail(s))

\* C32: in a gateway call both schedules follow the overall attempt index
\* a, to which timeouts and 429s both count: attempt a is posted with
\* timeout min(30*(a+1), 90); a 429 at attempt a < 2 is followed by a sleep
\* of min(2^a, 8) seconds however many 429s came before; a timeout is
\* followed by no sleep; all sleeps of a call add up to 3 seconds at most
\* and none reaches 8.
C32_SchedulesFollowAttempt ==
    caller \in {"generate", "generate_vision"} =>
        /\ \A i \in 1..Len(req_timeouts) : req_timeouts[i] = Min(30 * i, 90)
        /\ sleeps = C32_ExpectedSleeps(responses, Len(responses))
        /\ C32_Sum(sleeps) <= 3
        /\ \A i \in 1..Len(sleeps) : sleeps[i] < 8

\* a timeout at attempt 0, then a 429 at attempt 1 (the first 429 of the
\* call) followed by a sleep of 2, then attempt 2 posted with timeout 90
W_C32 ==
    /\ caller = "generate"
    /\ Len(responses) = 2
    /\ responses[1].kind = "timeout"
    /\ responses[2].status_code = 429
    /\ sleeps = <<2>>
    /\ req_timeouts = <<30, 60, 90>>

\* C33: when the normalized description contains a table keyword,
\* parse_task sends nothing to the LLM gateway and its outcome is that of
\* the first matching keyword's builder alone: when that builder fails
\* (install_run_script without datagen.py) parse_task fails at once, with
\* that builder's error, whatever later keywords the text holds.
C33_FirstKeywordOnly ==
    (caller \in {"parse_task", "run_task"} /\ p_pc # "idle") =>
        LET text == Normalize(task_description)
            hits == {i \in 1..Len(_task_handlers) : Contains(text, _task_handlers[i].text)}
        IN  hits # {} =>
               LET first == CHOOSE i \in hits : \A h \in hits : i <= h
               IN  /\ llm_calls = 0
                   /\ requests = 0
                   /\ g_pc = "idle"
                   /\ p_pc \in {"returned", "raised"}
                   /\ (first = 1 /\ ~Contains(text, <<"datagen.py">>))
                      => /\ p_pc = "raised"
                         /\ p_error = Exc("ValueError",
                               <<"Task parsing failed: ",
                                 "Invalid install script task: datagen.py not specified">>)
                   /\ p_pc = "returned" => p_result.task_type = _task_handlers[first].name

\* install_run_script without datagen.py, followed by a keyword whose
\* builder would succeed: parse_task has failed and nothing was sent
W_C33 ==
    /\ caller = "parse_task"
    /\ task_description = _task_handlers[1].text \o <<" ">> \o _task_handlers[2].text
    /\ p_pc = "raised"
    /\ llm_calls = 0
    /\ requests = 0

\* the second call ended as the first one did
C34_SameOutcome ==
    /\ p_pc = n_first.pc
    /\ p_result = n_first.result
    /\ p_error = n_first.error

\* C34 as stated: for every description d, parse_task(d) has the same
\* outcome (the same ParsedTask or the same failure) as parse_task on d
\* with whitespace added at its ends or with any letters changed in case.
C34_NormalizationInvariant ==
    n_pc = "second" => C34_SameOutcome

\* C34 amended: the same, for changes of case of ASCII letters.
C34_AsciiNormalizationInvariant ==
    (/\ n_pc = "second"
     /\ \A k \in n_variant.from..n_variant.to : n_first.d[k] # "<U+0131>nstall")
    => C34_SameOutcome

\* format_markdown was parsed, and then the same text in upper case with
\* whitespace at both ends, with the same ParsedTask
W_C34 ==
    /\ n_pc = "second"
    /\ n_first.d = _task_handlers[2].text
    /\ task_description = <<" ", "FORMAT", "_", "MARKDOWN", "\n", "\t">>
    /\ p_pc = "returned"
    /\ p_result = ParsedTask("format_markdown", EmptyDict)
    /\ n_first.result = p_result

====
